---------------------------- MODULE Spec2Model ----------------------------
(***************************************************************************)
(* A state-machine model of the hantara-api send pipeline: the auth gate,  *)
(* POST /send, the BullMQ email worker, the tracking ingress and the       *)
(* suppression engine.                                                     *)
(*                                                                         *)
(* Strings are modelled by what the code does to them:                     *)
(*   - an e-mail address is <<name, upper, pad>>: toLowerCase() clears     *)
(*     `upper`, trim() clears `pad`;                                       *)
(*   - a host name is <<name, upper>>;                                     *)
(*   - nanoid() values are modelled by tuples that are unique per request. *)
(***************************************************************************)
EXTENDS Integers, Sequences, FiniteSets, TLC

(***************************************************************************)
(* Bounds of the model.                                                    *)
(***************************************************************************)
MaxReq == 2
MaxGets == 2
MaxRelayErrors == 3
MaxRcpt == 2
MaxTrackReq == 1
MaxAuthReq == 1
MaxBounces == 3
InitialLimit == 3
MaxAnchors == 3
MaxVars == 2
MaxConcGets == 2

(***************************************************************************)
(* Program constants.                                                      *)
(***************************************************************************)
DefaultAttempts == 3
SOFT_BOUNCE_THRESHOLD == 3

(***************************************************************************)
(* Optional values: None, or a record with its own fields.                 *)
(***************************************************************************)
None == [none |-> TRUE]

(***************************************************************************)
(* Strings.                                                                *)
(***************************************************************************)
Names == {"a", "b"}
Email(n) == <<n, FALSE, FALSE>>
ToLowerCase(e) == <<e[1], FALSE, e[3]>>
Trim(e) == <<e[1], e[2], FALSE>>
HostLower(h) == <<h[1], FALSE>>

(***************************************************************************)
(* The tenants: users, their domains, API keys and billing rows.  These    *)
(* tables are administered outside the core and only read here.            *)
(***************************************************************************)
Users == {"u1", "u2"}
Domains == {"d1", "d2"}
Keys == {"k1", "k2"}
KeyUser == [k \in Keys |-> IF k = "k1" THEN "u1" ELSE "u2"]
KeyDomain == [k \in Keys |-> IF k = "k1" THEN "d1" ELSE "d2"]
DomainUser == [d \in Domains |-> IF d = "d1" THEN "u1" ELSE "u2"]
DomainName == [d \in Domains |-> IF d = "d1" THEN <<"example.com", FALSE>>
                                  ELSE <<"other.org", TRUE>>]
Billings == {"b1"}
BillingUser == [b \in Billings |-> "u1"]
UserBillings(u) == {b \in Billings : BillingUser[b] = u}

\* The plain token of each key, as handed to its owner once.
KeyToken == [k \in Keys |-> IF k = "k1" THEN "tok1" ELSE "tok2"]
Tokens == {"tok1", "tok2", "tokX", ""}

\* createHash('sha256').update(key).digest('hex'): collision free on Tokens.
hashApiKey(key) == <<"sha256", key>>
KeyHash == [k \in Keys |-> hashApiKey(KeyToken[k])]


(***************************************************************************)
(* The state.                                                              *)
(***************************************************************************)
VARIABLES
    isActive,               \* domainApiKey.isActive, per key
    txtVerified,            \* domain.txtVerified, per domain
    lastUsedAt,             \* whether domainApiKey.lastUsedAt is set, per key
    enableOpenTracking,     \* config.tracking.enableOpenTracking
    enableClickTracking,    \* config.tracking.enableClickTracking
    storeAuth,              \* the Elysia store's `auth` entry
    reqs,                   \* the /api/v1 requests, in order of arrival
    emailEvent,             \* table email_event
    emailTrackingOpen,      \* table email_tracking_open
    emailTrackingLink,      \* table email_tracking_link
    emailSuppression,       \* table email_suppression
    emailUsed,              \* user_billing.email_used, per billing row
    jobs,                   \* the jobs of the email-send queue
    relayed,                \* the envelopes the SMTP relay accepted
    gets,                   \* number of tracking GETs served
    lastGet,                \* the response to the latest tracking GET
    trk,                    \* the tracking GETs in flight, step by step
    lastCheck,              \* the latest checkSuppression call and its result
    lastRender,             \* the latest renderTemplate call and its result
    lastMail                \* the latest envelope built from a job's data

tables == <<isActive, txtVerified, lastUsedAt>>
config == <<enableOpenTracking, enableClickTracking>>
tracking == <<emailTrackingOpen, emailTrackingLink>>
ingress == <<gets, lastGet, trk>>
vars == <<isActive, txtVerified, lastUsedAt, enableOpenTracking,
          enableClickTracking, storeAuth, reqs, emailEvent, emailTrackingOpen,
          emailTrackingLink, emailSuppression, emailUsed, jobs, relayed, gets,
          lastGet, trk, lastCheck, lastRender, lastMail>>

EmailLimit == [b \in Billings |-> InitialLimit]

(***************************************************************************)
(* Auth gate (middleware/auth.ts).                                         *)
(*                                                                         *)
(* An Authorization header is None (absent) or [prefix, tok, pad]: the     *)
(* text prefix ++ tok, with blanks around tok when pad.                    *)
(***************************************************************************)
BearerHeader(tok, pad) == [prefix |-> "Bearer ", tok |-> tok, pad |-> pad]

\* authHeader.slice(7).trim()
PresentedKey(h) == h.tok

\* db.query.domainApiKey.findFirst({ where: eq(keyHash, ...) })
FindApiKey(hash) == {k \in Keys : KeyHash[k] = hash}

\* apiKeyRecord.user.userBillings[0] || null, as read at lookup time
BillingRecord(u) ==
    IF UserBillings(u) = {} THEN None
    ELSE LET b == CHOOSE x \in UserBillings(u) : TRUE
         IN  [id |-> b, emailLimit |-> EmailLimit[b], emailUsed |-> emailUsed[b]]

\* The AuthContext built for key k.
AuthContextOf(k) ==
    [apiKey |-> k, domain |-> KeyDomain[k], user |-> KeyUser[k],
     billing |-> BillingRecord(KeyUser[k])]

\* A gate that does not look at isActive.
GateStatus_skipActive(h, lookupOk) ==
    IF h = None THEN 401
    ELSE IF h.prefix # "Bearer " THEN 401
    ELSE IF PresentedKey(h) = "" THEN 401
    ELSE IF ~lookupOk THEN 500
    ELSE LET found == FindApiKey(hashApiKey(PresentedKey(h)))
         IN  IF found = {} THEN 401
             ELSE LET k == CHOOSE x \in found : TRUE
                  IN  IF ~txtVerified[KeyDomain[k]] THEN 403 ELSE 0

\* The HTTP status the gate answers with, 0 when it lets the request pass.
\* A gate that looks at the domain before the key.
GateStatus_verifiedFirst(h, lookupOk) ==
    IF h = None THEN 401
    ELSE IF h.prefix # "Bearer " THEN 401
    ELSE IF PresentedKey(h) = "" THEN 401
    ELSE IF ~lookupOk THEN 500
    ELSE LET found == FindApiKey(hashApiKey(PresentedKey(h)))
         IN  IF found = {} THEN 401
             ELSE LET k == CHOOSE x \in found : TRUE
                  IN  IF ~txtVerified[KeyDomain[k]] THEN 403
                      ELSE IF ~isActive[k] THEN 401
                      ELSE 0

\* The checks of onBeforeHandle in order: the status of the first one that
\* fails, 0 when all pass.
GateStatus(h, lookupOk) ==
    IF h = None THEN 401
    ELSE IF h.prefix # "Bearer " THEN 401
    ELSE IF PresentedKey(h) = "" THEN 401
    ELSE IF ~lookupOk THEN 500
    ELSE LET found == FindApiKey(hashApiKey(PresentedKey(h)))
         IN  IF found = {} THEN 401
             ELSE LET k == CHOOSE x \in found : TRUE
                  IN  IF ~isActive[k] THEN 401
                      ELSE IF ~txtVerified[KeyDomain[k]] THEN 403
                      ELSE 0

GateKey(h) == CHOOSE k \in FindApiKey(hashApiKey(PresentedKey(h))) : TRUE

\* A gate that awaits the update of lastUsedAt inside its try block.
GateOutcome_awaitUpdate(h, lookupOk, updateOk) ==
    IF GateStatus(h, lookupOk) = 0 /\ ~updateOk THEN 500
    ELSE GateStatus(h, lookupOk)

\* The status the gate answers with.  The update of lastUsedAt is started
\* after the checks and not awaited, and its rejection is caught and
\* dropped.
GateOutcome(h, lookupOk, updateOk) == GateStatus(h, lookupOk)

\* db.update(domainApiKey).set({ lastUsedAt: new Date() })
UpdateLastUsedAt(k, updateOk) ==
    IF updateOk THEN [lastUsedAt EXCEPT ![k] = TRUE] ELSE lastUsedAt


(***************************************************************************)
(* HTML tracking rewriter (lib/tracking.ts).                               *)
(*                                                                         *)
(* An HTML body is [anchors, pixels]: the href of each <a>, in order, and  *)
(* the ids of the tracking pixels it carries.  An href is an original URL  *)
(* <<"url", base, marker>> or a click URL <<"t/c", clickId>>.  `marker`    *)
(* is the part of the URL the exclusion list looks at.                     *)
(***************************************************************************)
EXCLUDED_DOMAINS == {"unsubscribe", "optout", "mailto:", "tel:", "#"}

LowerMarker(m) ==
    CASE m = "Unsubscribe" -> "unsubscribe"
      [] m = "OptOut" -> "optout"
      [] OTHER -> m

\* A shouldExcludeUrl without toLowerCase().
shouldExcludeUrl_caseSensitive(url) == url[3] \in EXCLUDED_DOMAINS

\* shouldExcludeUrl
shouldExcludeUrl(url) == LowerMarker(url[3]) \in EXCLUDED_DOMAINS

\* generateTrackingId(): nanoid(24), unique per request r and use n
OpenTrackingId(r) == <<"ot", r>>
ClickTrackingId(r, n) == <<"ct", r, n>>

\* extractLinksFromHtml
extractLinksFromHtml(html) ==
    SelectSeq(html.anchors, LAMBDA u : ~shouldExcludeUrl(u))

RECURSIVE UniqueUrls(_)
\* the URLs of a sequence in order of first occurrence (processedUrls)
UniqueUrls(seq) ==
    IF seq = <<>> THEN <<>>
    ELSE LET front == UniqueUrls(SubSeq(seq, 1, Len(seq) - 1))
             last == seq[Len(seq)]
         IN  IF \E i \in 1..Len(front) : front[i] = last THEN front
             ELSE Append(front, last)

\* generateTrackingData(...).links
TrackingLinks(r, html) ==
    LET urls == UniqueUrls(extractLinksFromHtml(html))
    IN  [n \in 1..Len(urls) |->
            [trackingId |-> ClickTrackingId(r, n), originalUrl |-> urls[n]]]

\* wrapLinksForTracking
wrapLinksForTracking(html, links) ==
    [html EXCEPT !.anchors =
        [i \in 1..Len(html.anchors) |->
            LET u == html.anchors[i]
            IN  IF shouldExcludeUrl(u) THEN u
                ELSE IF \E n \in 1..Len(links) : links[n].originalUrl = u
                     THEN LET n == CHOOSE x \in 1..Len(links) :
                                       links[x].originalUrl = u
                          IN  <<"t/c", links[n].trackingId>>
                     ELSE u]]

\* injectOpenTracker
injectOpenTracker(html, pixelId) ==
    [html EXCEPT !.pixels = Append(html.pixels, pixelId)]

\* applyEmailTracking
applyEmailTracking(r, html) ==
    LET links == TrackingLinks(r, html)
    IN  [modifiedHtml |->
             injectOpenTracker(wrapLinksForTracking(html, links),
                               OpenTrackingId(r)),
         openTrackingId |-> OpenTrackingId(r),
         links |-> links]

\* `${trackingData.openTrackingId}_${nanoid(8)}`
OpenRowId(openTrackingId, suffix) == Append(openTrackingId, suffix)

(***************************************************************************)
(* Suppression engine (routes/suppression.ts).                             *)
(*                                                                         *)
(* A row is [id, userId, domainId, email, reason, metadata]; domainId is   *)
(* "" for NULL; metadata is [softBounceCount, upgradedAt, auto]: 0 where   *)
(* the JSON has no such entry.                                             *)
(***************************************************************************)
SUPPRESSION_REASONS ==
    {"hard_bounce", "soft_bounce", "complaint", "unsubscribe", "manual"}
BLOCKING_REASONS == {"hard_bounce", "complaint", "unsubscribe", "manual"}

\* A check that does not look at the domain scope of a row.
checkSuppression_anyDomain(userId, emails, domainId) ==
    IF Len(emails) = 0 THEN {}
    ELSE LET normalizedEmails == {ToLowerCase(emails[i]) : i \in 1..Len(emails)}
         IN  {s.email : s \in {x \in emailSuppression :
                 /\ x.userId = userId
                 /\ x.email \in normalizedEmails
                 /\ x.reason \in BLOCKING_REASONS}}

\* checkSuppression: the addresses of `emails` (a sequence) that are blocked.
\* domainId is "" when the caller passes none.
checkSuppression(userId, emails, domainId) ==
    IF Len(emails) = 0 THEN {}
    ELSE LET normalizedEmails == {ToLowerCase(emails[i]) : i \in 1..Len(emails)}
         IN  {s.email : s \in {x \in emailSuppression :
                 /\ x.userId = userId
                 /\ x.email \in normalizedEmails
                 /\ x.reason \in BLOCKING_REASONS
                 /\ IF domainId # ""
                    THEN x.domainId = "" \/ x.domainId = domainId
                    ELSE x.domainId = ""}}

\* findFirst({ where: and(eq(userId), eq(email)) })
FindSuppression(userId, normalizedEmail) ==
    {x \in emailSuppression : x.userId = userId /\ x.email = normalizedEmail}

\* email.toLowerCase().trim()
Normalize(e) == Trim(ToLowerCase(e))

\* nanoid() of the call made by request r
SuppressionId(r) == <<"sup", r>>

\* A table without the unique index.
UniqueViolation_noIndex(row) == FALSE

\* uniqueIndex('email_suppression_user_email_idx').on(userId, email)
UniqueViolation(row) ==
    \E x \in emailSuppression : x.userId = row.userId /\ x.email = row.email

\* The row a call inserts.
NewSuppression(r, call, reason, count) ==
    [id |-> SuppressionId(r), userId |-> call.userId,
     domainId |-> call.domainId, email |-> call.email, reason |-> reason,
     metadata |-> [softBounceCount |-> count, upgradedAt |-> 0,
                   auto |-> call.auto]]

\* { id, email, reason } as the helpers return it
SuppressionResult(row) == [id |-> row.id, email |-> row.email, reason |-> row.reason]

\* A counter that forgets the bounces counted so far.
CurrentCount_forget(metadata) == 1

\* (metadata.softBounceCount as number) || 1
CurrentCount(metadata) ==
    IF metadata.softBounceCount = 0 THEN 1 ELSE metadata.softBounceCount

\* The update handleSoftBounce issues for the row it read, at time `now`:
\* the columns it sets, by id.
SoftBounceUpdate(existing, now) ==
    LET newCount == CurrentCount(existing.metadata) + 1
    IN  IF newCount >= SOFT_BOUNCE_THRESHOLD
        THEN [reason |-> "hard_bounce",
              metadata |-> [existing.metadata EXCEPT
                               !.softBounceCount = newCount,
                               !.upgradedAt = now]]
        ELSE [metadata |-> [existing.metadata EXCEPT
                               !.softBounceCount = newCount]]

\* db.update(emailSuppression).set(cols).where(eq(id, ...))
UpdateSuppression(id, cols) ==
    {IF x.id # id THEN x
     ELSE [x EXCEPT !.reason = IF "reason" \in DOMAIN cols THEN cols.reason
                                ELSE @,
                    !.metadata = cols.metadata] : x \in emailSuppression}

EVENT_TYPES == {"queued", "sent", "delivered", "opened", "clicked", "bounced",
                "complained", "unsubscribed", "failed"}


(***************************************************************************)
(* POST /send (the send route).                                            *)
(*                                                                         *)
(* A body is [from, to, subject, html, text, disableTracking]; `from` is   *)
(* [name, host, wellFormed], `to` is [one |-> address] or                  *)
(* [many |-> sequence of addresses], `subject` and `text` say whether the  *)
(* field is present and non-empty, `html` is None or an HTML body.         *)
(***************************************************************************)
\* parseEmailAddress
parseEmailAddress(from) ==
    IF from.wellFormed THEN [name |-> from.name, host |-> from.host] ELSE None

\* An extractDomain that keeps the case of the host.
extractDomain_caseSensitive(from) ==
    IF parseEmailAddress(from) = None THEN None
    ELSE [host |-> parseEmailAddress(from).host]

\* extractDomain: parts[1].toLowerCase()
extractDomain(from) ==
    IF parseEmailAddress(from) = None THEN None
    ELSE [host |-> HostLower(parseEmailAddress(from).host)]

\* Array.isArray(to) ? to : [to]
Recipients(to) == IF "many" \in DOMAIN to THEN to.many ELSE <<to.one>>

\* `<${nanoid()}@${auth.domain.name}>` of request r
MessageId(r, d) == <<"msg", r, DomainName[d][1]>>

\* recipientAddresses.indexOf(addr), counted from 1
IndexOf(seq, x) == CHOOSE i \in 1..Len(seq) :
                      seq[i] = x /\ \A j \in 1..(i - 1) : seq[j] # x

\* A preflight that rejects a send which would exactly reach the limit.
SendValidate_quotaInclusive(auth, body) ==
    IF auth = None THEN 401
    ELSE IF parseEmailAddress(body.from) = None THEN 400
    ELSE IF extractDomain(body.from).host # HostLower(DomainName[auth.domain])
         THEN 403
    ELSE IF /\ auth.billing # None
            /\ auth.billing.emailUsed + Len(Recipients(body.to))
                   >= auth.billing.emailLimit
         THEN 429
    ELSE IF ~body.subject THEN 400
    ELSE IF body.html = None /\ ~body.text THEN 400
    ELSE 0

\* The status of the synchronous checks of the handler, 0 when they pass.
SendValidate(auth, body) ==
    IF auth = None THEN 401
    ELSE IF parseEmailAddress(body.from) = None THEN 400
    ELSE IF extractDomain(body.from).host # HostLower(DomainName[auth.domain])
         THEN 403
    ELSE IF /\ auth.billing # None
            /\ auth.billing.emailUsed + Len(Recipients(body.to))
                   > auth.billing.emailLimit
         THEN 429
    ELSE IF ~body.subject THEN 400
    ELSE IF body.html = None /\ ~body.text THEN 400
    ELSE 0

\* shouldTrack
ShouldTrack(body) ==
    /\ ~body.disableTracking
    /\ body.html # None
    /\ (enableOpenTracking \/ enableClickTracking)

\* trackingData, or None
TrackingData(r, body) ==
    IF ShouldTrack(body) THEN applyEmailTracking(r, body.html) ELSE None

\* emailHtml handed to the worker
EmailHtml(r, body) ==
    IF ShouldTrack(body) THEN applyEmailTracking(r, body.html).modifiedHtml
    ELSE body.html

\* A handler that loses the last address of the list.
recipientAddresses_dropLast(recipients) ==
    SubSeq(recipients, 1, Len(recipients) - 1)

\* recipients.map(r => r): the addresses the handler goes on with
recipientAddresses(recipients) == recipients

QueuedEvent(r, n, auth, rcpt) ==
    [id |-> <<"ev", r, n>>, userId |-> auth.user,
     messageId |-> MessageId(r, auth.domain), eventType |-> "queued",
     recipientEmail |-> rcpt, metadata |-> <<"jobId", r>>]

OpenRow(r, n, auth, rcpt, track) ==
    [id |-> OpenRowId(track.openTrackingId, n), userId |-> auth.user,
     messageId |-> MessageId(r, auth.domain), recipientEmail |-> rcpt,
     openedAt |-> 0, openCount |-> 0]

LinkRows(r, auth, rcpt, track) ==
    {[id |-> track.links[i].trackingId, userId |-> auth.user,
      messageId |-> MessageId(r, auth.domain), recipientEmail |-> rcpt,
      originalUrl |-> track.links[i].originalUrl,
      clickedAt |-> 0, clickCount |-> 0] : i \in 1..Len(track.links)}

\* EmailJobData
JobData(r, req) ==
    [jobId |-> r, userId |-> req.auth.user, domainId |-> req.auth.domain,
     apiKeyId |-> req.auth.apiKey,
     messageId |-> MessageId(r, req.auth.domain),
     to |-> req.rcpts, html |-> req.html]

NewRequest(route, header, body) ==
    [route |-> route, header |-> header, body |-> body,
     auth |-> storeAuth, pc |-> "gate", status |-> 0, n |-> 0,
     rcpts |-> <<>>, track |-> None, html |-> None, resp |-> None,
     gate |-> "pending", dbOk |-> TRUE, touch |-> "none", call |-> None,
     existing |-> None]

\* Transform phase of a request: `derive` exposes store.auth as `auth`.
\* Elysia runs derive hooks with the transform hooks, before onBeforeHandle.
ReqArrive(route, header, body) ==
    /\ reqs' = Append(reqs, NewRequest(route, header, body))
    /\ UNCHANGED <<tables, config, storeAuth, emailEvent, tracking,
                   emailSuppression, emailUsed, jobs, relayed, ingress,
                   lastCheck, lastRender,
                   lastMail>>

\* What the handler of request r does before its first await.
HandlerStart(r, req) ==
    IF req.route = "send"
    THEN LET st == SendValidate(req.auth, req.body)
         IN  IF st # 0 THEN [req EXCEPT !.pc = "done", !.status = st]
             ELSE LET rc == recipientAddresses(Recipients(req.body.to))
                  IN  [req EXCEPT !.pc = IF Len(rc) = 0 THEN "increment"
                                         ELSE "insert",
                                  !.n = 1,
                                  !.rcpts = rc,
                                  !.track = TrackingData(r, req.body),
                                  !.html = EmailHtml(r, req.body)]
    ELSE IF req.auth = None THEN [req EXCEPT !.pc = "done", !.status = 401]
    ELSE IF req.route = "delete" THEN [req EXCEPT !.pc = "lookup"]
    ELSE IF req.route = "check"
    THEN IF req.body.email = None
         THEN [req EXCEPT !.pc = "done", !.status = 400]
         ELSE [req EXCEPT !.pc = "check"]
    ELSE IF req.route = "suppressions"
    THEN IF req.body.reason \notin SUPPRESSION_REASONS
         THEN [req EXCEPT !.pc = "done", !.status = 400]
         ELSE IF /\ req.body.domainId # ""
                 /\ ~(/\ req.body.domainId \in Domains
                      /\ DomainUser[req.body.domainId] = req.auth.user)
         THEN [req EXCEPT !.pc = "done", !.status = 400]
         ELSE [req EXCEPT !.pc = "find",
                          !.call = [fn |-> "addToSuppression",
                                    userId |-> req.auth.user,
                                    email |-> Normalize(req.body.email),
                                    reason |-> req.body.reason,
                                    domainId |-> req.body.domainId,
                                    auto |-> FALSE]]
    ELSE IF req.body.eventType \notin EVENT_TYPES
         THEN [req EXCEPT !.pc = "done", !.status = 400]
         ELSE [req EXCEPT !.pc = "event"]

\* onBeforeHandle of the auth middleware, then the start of the handler.
ReqGate(r, lookupOk, updateOk) ==
    /\ r \in 1..Len(reqs)
    /\ reqs[r].pc = "gate"
    /\ LET h == reqs[r].header
           checked == GateStatus(h, lookupOk) = 0
           touch == IF ~checked THEN "none"
                    ELSE IF updateOk THEN "ok" ELSE "failed"
           st == GateOutcome(h, lookupOk, updateOk)
       IN  /\ lastUsedAt' = IF checked
                             THEN UpdateLastUsedAt(GateKey(h), updateOk)
                             ELSE lastUsedAt
           /\ IF st # 0
              THEN /\ reqs' = [reqs EXCEPT ![r].pc = "done", ![r].status = st,
                                           ![r].gate = "rejected",
                                           ![r].dbOk = lookupOk,
                                           ![r].touch = touch]
                   /\ UNCHANGED storeAuth
              ELSE /\ storeAuth' = AuthContextOf(GateKey(h))
                   /\ reqs' = [reqs EXCEPT ![r] =
                          HandlerStart(r, [reqs[r] EXCEPT !.gate = "passed",
                                                          !.touch = touch])]
    /\ UNCHANGED <<isActive, txtVerified, config, emailEvent, tracking,
                   emailSuppression, emailUsed, jobs, relayed, ingress,
                   lastCheck, lastRender,
                   lastMail>>

\* A loop that is left after its first pass.
AfterInsert_firstOnly(req, n) == "increment"

\* for (const recipientAddr of recipientAddresses): the next pass, or the
\* statements after the loop when the list is exhausted.
AfterInsert(req, n) == IF n = Len(req.rcpts) THEN "increment" ELSE "insert"

\* One pass of the loop over the recipients: the queued event, the open
\* row and, for the first address, the link rows.
SendInsert(r) ==
    /\ r \in 1..Len(reqs)
    /\ reqs[r].pc = "insert"
    /\ LET req == reqs[r]
           n == req.n
           rcpt == req.rcpts[n]
           withOpen == req.track # None /\ enableOpenTracking
           withLinks == /\ req.track # None
                        /\ enableClickTracking
                        /\ IndexOf(req.rcpts, rcpt) = 1
           links == IF withLinks THEN LinkRows(r, req.auth, rcpt, req.track)
                    ELSE {}
           \* primary key of email_tracking_link
           conflict == \E l \in links : \E x \in emailTrackingLink : x.id = l.id
       IN  /\ emailEvent' = emailEvent \cup {QueuedEvent(r, n, req.auth, rcpt)}
           /\ emailTrackingOpen' =
                  IF withOpen
                  THEN emailTrackingOpen
                           \cup {OpenRow(r, n, req.auth, rcpt, req.track)}
                  ELSE emailTrackingOpen
           /\ emailTrackingLink' =
                  IF conflict THEN emailTrackingLink
                  ELSE emailTrackingLink \cup links
           /\ reqs' = [reqs EXCEPT ![r] =
                  IF conflict THEN [req EXCEPT !.pc = "done", !.status = 500]
                  ELSE [req EXCEPT !.n = n + 1, !.pc = AfterInsert(req, n)]]
    /\ UNCHANGED <<tables, config, storeAuth, emailSuppression, emailUsed,
                   jobs, relayed, ingress, lastCheck, lastRender,
                   lastMail>>

\* emailUsed = emailUsed + recipients.length
SendIncrement(r) ==
    /\ r \in 1..Len(reqs)
    /\ reqs[r].pc = "increment"
    /\ LET req == reqs[r]
       IN  emailUsed' =
               IF req.auth.billing # None
               THEN [emailUsed EXCEPT ![req.auth.billing.id] =
                         @ + Len(Recipients(req.body.to))]
               ELSE emailUsed
    /\ reqs' = [reqs EXCEPT ![r].pc = "enqueue"]
    /\ UNCHANGED <<tables, config, storeAuth, emailEvent, tracking,
                   emailSuppression, jobs, relayed, ingress, lastCheck, lastRender,
                   lastMail>>

\* The statement the handler of send request r awaits next (an insert of
\* the loop, the update of emailUsed, or emailQueue.add) throws.  The
\* handler has no try block and no transaction: the request ends in a 500
\* and what was written before stays.
SendThrows(r) ==
    /\ r \in 1..Len(reqs)
    /\ reqs[r].route = "send"
    /\ reqs[r].pc \in {"insert", "increment", "enqueue"}
    /\ reqs' = [reqs EXCEPT ![r].pc = "done", ![r].status = 500]
    /\ UNCHANGED <<tables, config, storeAuth, emailEvent, tracking,
                   emailSuppression, emailUsed, jobs, relayed, ingress,
                   lastCheck, lastRender,
                   lastMail>>

\* addEmailJob: emailQueue.add with jobId as the deduplication key
addEmailJob(data) ==
    IF \E j \in jobs : j.jobId = data.jobId THEN jobs
    ELSE jobs \cup {[jobId |-> data.jobId, data |-> data, attemptsMade |-> 0,
                     attempts |-> DefaultAttempts, state |-> "waiting",
                     result |-> "none"]}

\* The enqueue and the 200 response.
SendEnqueue(r) ==
    /\ r \in 1..Len(reqs)
    /\ reqs[r].pc = "enqueue"
    /\ jobs' = addEmailJob(JobData(r, reqs[r]))
    /\ reqs' = [reqs EXCEPT ![r].pc = "done", ![r].status = 200,
                            ![r].resp =
                                [jobId |-> r,
                                 messageId |-> MessageId(r, reqs[r].auth.domain),
                                 recipients |-> Len(Recipients(reqs[r].body.to)),
                                 status |-> "queued"]]
    /\ UNCHANGED <<tables, config, storeAuth, emailEvent, tracking,
                   emailSuppression, emailUsed, relayed, ingress, lastCheck, lastRender,
                   lastMail>>

(***************************************************************************)
(* Template renderer (renderTemplate of the send route).  A string is a    *)
(* sequence of characters; in a subject or an html every character is a    *)
(* pair <<character, origin>>, the origin being "tpl" for the text of the  *)
(* template, "val" for a caller-supplied value and "def" for a declared    *)
(* default.  The origin takes no part in the matching.  The characters    *)
(* backquote, apostrophe and double quote are written "bq", "sq", "dq".    *)
(***************************************************************************)
RECURSIVE ReplaceChar(_, _, _)
\* value.replace(/c/g, entity)
ReplaceChar(str, c, entity) ==
    IF str = <<>> THEN <<>>
    ELSE (IF Head(str) = c THEN entity ELSE <<Head(str)>>)
             \o ReplaceChar(Tail(str), c, entity)

\* escapedValue, escapedDefault: the five replacements in the code's order
escapedValue(value) ==
    ReplaceChar(ReplaceChar(ReplaceChar(ReplaceChar(ReplaceChar(value,
        "&", <<"&", "a", "m", "p", ";">>),
        "<", <<"&", "l", "t", ";">>),
        ">", <<"&", "g", "t", ";">>),
        "dq", <<"&", "q", "u", "o", "t", ";">>),
        "sq", <<"&", "#", "0", "3", "9", ";">>)

RECURSIVE Split(_, _)
\* the alternatives of a pattern source, cut at the separator
Split(src, sep) ==
    IF \A i \in 1..Len(src) : src[i] # sep THEN <<src>>
    ELSE LET i == CHOOSE n \in 1..Len(src) :
                      src[n] = sep /\ \A m \in 1..(n - 1) : src[m] # sep
         IN  <<SubSeq(src, 1, i - 1)>>
                 \o Split(SubSeq(src, i + 1, Len(src)), sep)

\* new RegExp(`\\{\\{\\s*${key}\\s*\\}\\}`, 'g'): the key goes into the
\* source as it is, so a `|` in it separates alternatives.  "\\s*" stands
\* for the whitespace run.
Placeholder(key) ==
    Split(<<"{", "{", "\\s*">> \o key \o <<"\\s*", "}", "}">>, "|")

RECURSIVE MatchLen(_, _, _)
\* The length of the match of one alternative at position i of str, -1
\* when it does not match there.
MatchLen(str, i, alt) ==
    IF alt = <<>> THEN 0
    ELSE IF Head(alt) = "\\s*"
    THEN IF i <= Len(str) /\ str[i][1] = " "
         THEN LET n == MatchLen(str, i + 1, alt)
              IN  IF n < 0 THEN -1 ELSE n + 1
         ELSE MatchLen(str, i, Tail(alt))
    ELSE IF i <= Len(str) /\ str[i][1] = Head(alt)
    THEN LET n == MatchLen(str, i + 1, Tail(alt))
         IN  IF n < 0 THEN -1 ELSE n + 1
    ELSE -1

RECURSIVE Expand(_, _, _, _, _)
\* The text a replacement string stands for at one match: $$, $&, $` and
\* $' are the patterns of String.prototype.replace.
Expand(repl, origin, match, before, after) ==
    IF repl = <<>> THEN <<>>
    ELSE IF /\ Head(repl) = "$"
            /\ Len(repl) >= 2
            /\ repl[2] \in {"$", "&", "bq", "sq"}
    THEN (CASE repl[2] = "$" -> <<<<"$", origin>>>>
            [] repl[2] = "&" -> match
            [] repl[2] = "bq" -> before
            [] repl[2] = "sq" -> after)
             \o Expand(Tail(Tail(repl)), origin, match, before, after)
    ELSE <<<<Head(repl), origin>>>>
             \o Expand(Tail(repl), origin, match, before, after)

RECURSIVE ReplaceFrom(_, _, _, _, _)
\* str.replace(placeholder, repl) from position i on
ReplaceFrom(str, i, alts, repl, origin) ==
    IF i > Len(str) THEN <<>>
    ELSE LET hits == {k \in 1..Len(alts) : MatchLen(str, i, alts[k]) > 0}
         IN  IF hits = {} THEN <<str[i]>>
                                   \o ReplaceFrom(str, i + 1, alts, repl, origin)
             ELSE LET k == CHOOSE x \in hits : \A y \in hits : x <= y
                      n == MatchLen(str, i, alts[k])
                  IN  Expand(repl, origin, SubSeq(str, i, i + n - 1),
                             SubSeq(str, 1, i - 1),
                             SubSeq(str, i + n, Len(str)))
                          \o ReplaceFrom(str, i + n, alts, repl, origin)

RECURSIVE Substitute(_, _, _)
\* The loop over Object.entries(variables), or over template.variables.
Substitute(str, entries, origin) ==
    IF entries = <<>> THEN str
    ELSE Substitute(ReplaceFrom(str, 1, Placeholder(Head(entries).key),
                                escapedValue(Head(entries).value), origin),
                    Tail(entries), origin)

\* The declared variables that have a defaultValue.
Defaults(template) ==
    LET withDefault == SelectSeq(template.variables,
                                 LAMBDA v : v.defaultValue # <<>>)
    IN  [i \in 1..Len(withDefault) |->
            [key |-> withDefault[i].name, value |-> withDefault[i].defaultValue]]

\* renderTemplate, for the template row found
renderTemplate(template, variables) ==
    [subject |-> Substitute(Substitute(template.subject, variables, "val"),
                            Defaults(template), "def"),
     html |-> Substitute(Substitute(template.htmlContent, variables, "val"),
                         Defaults(template), "def"),
     templateId |-> template.id]

RenderCall(template, variables) ==
    /\ lastRender' = [template |-> template, variables |-> variables,
                      result |-> renderTemplate(template, variables)]
    /\ UNCHANGED <<tables, config, storeAuth, reqs, emailEvent, tracking,
                   emailSuppression, emailUsed, jobs, relayed, ingress,
                   lastCheck, lastMail>>

\* { ...base, ...over }: the later entries replace the earlier ones
Spread(base, over) ==
    [k \in DOMAIN base \cup DOMAIN over |->
        IF k \in DOMAIN over THEN over[k] ELSE base[k]]

NoHeaders == [k \in {} |-> ""]

\* mailOptions.headers of processEmailJob
MailHeaders(data) ==
    Spread([k \in {"X-Message-Id", "X-User-Id", "X-Domain-Id", "X-API-Key-Id"}
              |-> CASE k = "X-Message-Id" -> data.messageId
                    [] k = "X-User-Id" -> data.userId
                    [] k = "X-Domain-Id" -> data.domainId
                    [] k = "X-API-Key-Id" -> data.apiKeyId],
           IF data.headers = None THEN NoHeaders ELSE data.headers)

\* A direct construction of the envelope headers from a job's data.
MailCall(data) ==
    /\ lastMail' = [data |-> data, headers |-> MailHeaders(data)]
    /\ UNCHANGED <<tables, config, storeAuth, reqs, emailEvent, tracking,
                   emailSuppression, emailUsed, jobs, relayed, ingress,
                   lastCheck, lastRender>>

(***************************************************************************)
(* POST /events and POST /suppressions.                                    *)
(*                                                                         *)
(* An events body is [eventType, recipientEmail, bounceType, messageId]:   *)
(* bounceType is metadata.bounceType, "" when absent; messageId is None    *)
(* when absent.  A suppressions body is [email, reason, domainId].         *)
(***************************************************************************)
\* The suppression helper POST /events goes on with, None when it has none.
\* A POST /events that treats every bounce as permanent.
EventCall_allBouncesHard(req) ==
    LET internal(reason) ==
            [fn |-> "addToSuppressionInternal", userId |-> req.auth.user,
             email |-> Normalize(req.body.recipientEmail), reason |-> reason,
             domainId |-> req.auth.domain, auto |-> TRUE]
    IN  CASE req.body.eventType = "complained" -> internal("complaint")
          [] req.body.eventType = "unsubscribed" -> internal("unsubscribe")
          [] req.body.eventType = "bounced" -> internal("hard_bounce")
          [] OTHER -> None

EventCall(req) ==
    LET base == [userId |-> req.auth.user,
                 email |-> Normalize(req.body.recipientEmail),
                 domainId |-> req.auth.domain, auto |-> TRUE]
        internal(reason) ==
            [fn |-> "addToSuppressionInternal", userId |-> base.userId,
             email |-> base.email, reason |-> reason,
             domainId |-> base.domainId, auto |-> TRUE]
    IN  CASE req.body.eventType = "complained" -> internal("complaint")
          [] req.body.eventType = "unsubscribed" -> internal("unsubscribe")
          [] req.body.eventType = "bounced" ->
                 IF req.body.bounceType = "soft_bounce"
                 THEN [fn |-> "handleSoftBounce", userId |-> base.userId,
                       email |-> base.email, reason |-> "soft_bounce",
                       domainId |-> base.domainId, auto |-> FALSE]
                 ELSE internal("hard_bounce")
          [] OTHER -> None

\* The event row POST /events inserts.
ApiEvent(r, req) ==
    [id |-> <<"evt_api", r>>, userId |-> req.auth.user,
     messageId |-> IF req.body.messageId = None
                   THEN <<"manual", <<"evt_api", r>>>>
                   ELSE req.body.messageId.id,
     eventType |-> req.body.eventType,
     recipientEmail |-> Normalize(req.body.recipientEmail),
     metadata |-> <<"bounceType", req.body.bounceType>>]

\* POST /events: the insert of the event row.
EventInsert(r) ==
    /\ r \in 1..Len(reqs)
    /\ reqs[r].pc = "event"
    /\ emailEvent' = emailEvent \cup {ApiEvent(r, reqs[r])}
    /\ reqs' = [reqs EXCEPT ![r] =
           IF EventCall(reqs[r]) = None
           THEN [@ EXCEPT !.pc = "done", !.status = 201,
                          !.resp = [suppression |-> None]]
           ELSE [@ EXCEPT !.pc = "find", !.call = EventCall(reqs[r])]]
    /\ UNCHANGED <<tables, config, storeAuth, tracking, emailSuppression,
                   emailUsed, jobs, relayed, ingress, lastCheck, lastRender,
                   lastMail>>

\* The result of handleSoftBounce.
SoftBounceResult(id, email, reason, upgraded) ==
    [id |-> id, email |-> email, reason |-> reason, upgraded |-> upgraded]

\* What a call returns for the row it found and leaves alone.
ExistingResult(call, existing) ==
    IF call.fn = "handleSoftBounce"
    THEN SoftBounceResult(existing.id, existing.email, existing.reason, FALSE)
    ELSE SuppressionResult(existing)

\* A handleSoftBounce that counts a bounce on a row of any reason.
CountsBounce_anyReason(call, existing) == call.fn = "handleSoftBounce"

\* The call goes on to update the row found: handleSoftBounce on a row
\* whose reason is soft_bounce.
CountsBounce(call, existing) ==
    call.fn = "handleSoftBounce" /\ existing.reason = "soft_bounce"

\* addToSuppression, addToSuppressionInternal, handleSoftBounce: the
\* findFirst for (userId, email).
SuppressionFind(r) ==
    /\ r \in 1..Len(reqs)
    /\ reqs[r].pc = "find"
    /\ LET call == reqs[r].call
           found == FindSuppression(call.userId, call.email)
       IN  reqs' = [reqs EXCEPT ![r] =
               IF found = {} THEN [@ EXCEPT !.pc = "write"]
               ELSE LET existing == CHOOSE x \in found : TRUE
                    IN  IF CountsBounce(call, existing)
                        THEN [@ EXCEPT !.pc = "write", !.existing = existing]
                        ELSE [@ EXCEPT !.pc = "done", !.status = 201,
                                       !.existing = existing,
                                       !.resp = [suppression |->
                                           ExistingResult(call, existing)]]]
    /\ UNCHANGED <<tables, config, storeAuth, emailEvent, tracking,
                   emailSuppression, emailUsed, jobs, relayed, ingress,
                   lastCheck, lastRender,
                   lastMail>>

\* The insert of a new row, or the update of the soft-bounce row read.
SuppressionWrite(r) ==
    /\ r \in 1..Len(reqs)
    /\ reqs[r].pc = "write"
    /\ LET call == reqs[r].call
           existing == reqs[r].existing
           row == NewSuppression(r, call, call.reason,
                      IF call.fn = "handleSoftBounce" THEN 1 ELSE 0)
       IN  IF existing = None
           THEN IF UniqueViolation(row)
                THEN /\ reqs' = [reqs EXCEPT ![r].pc = "done",
                                             ![r].status = 500]
                     /\ UNCHANGED emailSuppression
                ELSE /\ emailSuppression' = emailSuppression \cup {row}
                     /\ reqs' = [reqs EXCEPT ![r].pc = "done",
                                             ![r].status = 201,
                                             ![r].resp = [suppression |->
                                                 ExistingResult(call, row)]]
           ELSE LET cols == SoftBounceUpdate(existing, r)
                IN  /\ emailSuppression' = UpdateSuppression(existing.id, cols)
                    /\ reqs' = [reqs EXCEPT
                           ![r].pc = "done", ![r].status = 201,
                           ![r].resp = [suppression |->
                               SoftBounceResult(existing.id, call.email,
                                   IF "reason" \in DOMAIN cols
                                   THEN "hard_bounce" ELSE "soft_bounce",
                                   "reason" \in DOMAIN cols)]]
    /\ UNCHANGED <<tables, config, storeAuth, emailEvent, tracking,
                   emailUsed, jobs, relayed, ingress, lastCheck, lastRender,
                   lastMail>>

\* A lookup by id alone.
OwnedRows_anyTenant(id, userId) == {x \in emailSuppression : x.id = id}

\* where: and(eq(emailSuppression.id, id), eq(emailSuppression.userId, userId))
OwnedRows(id, userId) ==
    {x \in emailSuppression : x.id = id /\ x.userId = userId}

\* removeFromSuppression: delete where userId and id match.
removeFromSuppression(userId, id) ==
    {x \in emailSuppression : ~(x.userId = userId /\ x.id = id)}

\* DELETE /suppressions/:id: the findFirst and the 404.
DeleteFind(r) ==
    /\ r \in 1..Len(reqs)
    /\ reqs[r].pc = "lookup"
    /\ LET found == OwnedRows(reqs[r].body.id, reqs[r].auth.user)
       IN  reqs' = [reqs EXCEPT ![r] =
               IF found = {}
               THEN [@ EXCEPT !.pc = "done", !.status = 404]
               ELSE [@ EXCEPT !.pc = "remove",
                              !.existing = CHOOSE x \in found : TRUE]]
    /\ UNCHANGED <<tables, config, storeAuth, emailEvent, tracking,
                   emailSuppression, emailUsed, jobs, relayed, ingress,
                   lastCheck, lastRender,
                   lastMail>>

\* DELETE /suppressions/:id: removeFromSuppression and the response.
DeleteRemove(r) ==
    /\ r \in 1..Len(reqs)
    /\ reqs[r].pc = "remove"
    /\ emailSuppression' =
           removeFromSuppression(reqs[r].auth.user, reqs[r].body.id)
    /\ reqs' = [reqs EXCEPT ![r].pc = "done", ![r].status = 200,
                            ![r].resp = [success |-> TRUE,
                                         email |-> reqs[r].existing.email]]
    /\ UNCHANGED <<tables, config, storeAuth, emailEvent, tracking,
                   emailUsed, jobs, relayed, ingress, lastCheck, lastRender,
                   lastMail>>

\* GET /suppressions/check: checkSuppression(auth.user.id,
\* [email.toLowerCase()]) with no domainId, and the response.
SuppressionCheck(r) ==
    /\ r \in 1..Len(reqs)
    /\ reqs[r].pc = "check"
    /\ LET email == ToLowerCase(reqs[r].body.email)
           suppressed == checkSuppression(reqs[r].auth.user, <<email>>, "")
       IN  reqs' = [reqs EXCEPT ![r].pc = "done", ![r].status = 200,
                                ![r].resp = [email |-> email,
                                             suppressed |-> suppressed # {}]]
    /\ UNCHANGED <<tables, config, storeAuth, emailEvent, tracking,
                   emailSuppression, emailUsed, jobs, relayed, ingress,
                   lastCheck, lastRender,
                   lastMail>>

\* A direct call of checkSuppression.
CheckCall(userId, emails, domainId) ==
    /\ lastCheck' = [userId |-> userId, emails |-> emails,
                     domainId |-> domainId,
                     result |-> checkSuppression(userId, emails, domainId)]
    /\ UNCHANGED <<tables, config, storeAuth, reqs, emailEvent, tracking,
                   emailSuppression, emailUsed, jobs, relayed, ingress,
                   lastRender,
                   lastMail>>

(***************************************************************************)
(* Email worker (workers/email.ts) and the queue's retry policy.           *)
(***************************************************************************)
\* A worker whose update matches no row.
UpdateEvents_noRow(messageId, eventType, metadata) == emailEvent

\* db.update(emailEvent).set({eventType, metadata}).where(eq(messageId, ...))
UpdateEvents(messageId, eventType, metadata) ==
    {IF e.messageId = messageId
     THEN [e EXCEPT !.eventType = eventType, !.metadata = metadata]
     ELSE e : e \in emailEvent}

\* GREATEST(0, emailUsed - n)
Greatest0(x) == IF x < 0 THEN 0 ELSE x

\* A worker that takes every attempt for the last one.
IsLastAttempt_always(job) == job.attemptsMade + 1 >= 1

\* job.attemptsMade + 1 >= (job.opts.attempts || 3)
IsLastAttempt(job) == job.attemptsMade + 1 >= job.attempts

\* A rollback that gives back one email whatever the number of recipients.
RollbackUsed_byOne(job) ==
    IF IsLastAttempt(job) /\ UserBillings(job.data.userId) # {}
    THEN LET b == CHOOSE x \in UserBillings(job.data.userId) : TRUE
         IN  [emailUsed EXCEPT ![b] = Greatest0(@ - 1)]
    ELSE emailUsed

\* The rollback of the quota on the last attempt.
RollbackUsed(job) ==
    IF IsLastAttempt(job) /\ UserBillings(job.data.userId) # {}
    THEN LET b == CHOOSE x \in UserBillings(job.data.userId) : TRUE
         IN  [emailUsed EXCEPT ![b] = Greatest0(@ - Len(job.data.to))]
    ELSE emailUsed

\* A worker that swallows the relay's error: the job counts as done.
AfterFailure_swallow(job) ==
    [job EXCEPT !.attemptsMade = @ + 1, !.result = "none",
                !.state = "completed"]

\* The queue after a failed attempt: retry while attempts remain.
AfterFailure(job) ==
    [job EXCEPT !.attemptsMade = @ + 1, !.result = "none",
                !.state = IF job.attemptsMade + 1 < job.attempts
                          THEN "waiting" ELSE "failed"]

FailedAttempts(j) == j.attemptsMade + (IF j.result = "error" THEN 1 ELSE 0)

RECURSIVE SumFailedAttempts(_)
SumFailedAttempts(S) ==
    IF S = {} THEN 0
    ELSE LET x == CHOOSE y \in S : TRUE
         IN  FailedAttempts(x) + SumFailedAttempts(S \ {x})

\* The number of attempts the relay has answered with an error so far.
RelayErrors == SumFailedAttempts(jobs)

\* The worker takes a waiting job and hands the message to the relay,
\* which accepts it or answers with an error.
WorkerDial(jid, accepted) ==
    /\ \E job \in jobs :
         /\ job.jobId = jid
         /\ job.state = "waiting"
         /\ accepted \/ RelayErrors < MaxRelayErrors
         /\ jobs' = (jobs \ {job})
                      \cup {[job EXCEPT !.state = "active",
                                        !.result = IF accepted THEN "accepted"
                                                   ELSE "error"]}
         /\ relayed' = IF accepted
                       THEN relayed \cup {[messageId |-> job.data.messageId,
                                           to |-> job.data.to,
                                           html |-> job.data.html,
                                           attempt |-> job.attemptsMade + 1]}
                       ELSE relayed
    /\ UNCHANGED <<tables, config, storeAuth, reqs, emailEvent, tracking,
                   emailSuppression, emailUsed, ingress, lastCheck, lastRender,
                   lastMail>>

\* sendMail resolves although the relay rejected some of the recipients:
\* info.rejected is not empty and the message went to the others.
WorkerDialPartial(jid, rejected) ==
    /\ \E job \in jobs :
         /\ job.jobId = jid
         /\ job.state = "waiting"
         /\ rejected \in 1..Len(job.data.to)
         /\ Len(job.data.to) > 1
         /\ jobs' = (jobs \ {job})
                      \cup {[job EXCEPT !.state = "active",
                                        !.result = "partial"]}
         /\ relayed' = relayed
                \cup {[messageId |-> job.data.messageId,
                       to |-> SelectSeq(job.data.to,
                                 LAMBDA a : a # job.data.to[rejected]),
                       html |-> job.data.html,
                       attempt |-> job.attemptsMade + 1]}
    /\ UNCHANGED <<tables, config, storeAuth, reqs, emailEvent, tracking,
                   emailSuppression, emailUsed, ingress, lastCheck, lastRender,
                   lastMail>>

\* sendMail resolved: the events of the message become `sent`.
WorkerSucceed(jid) ==
    /\ \E job \in jobs :
         /\ job.jobId = jid
         /\ job.state = "active"
         /\ job.result \in {"accepted", "partial"}
         /\ emailEvent' = UpdateEvents(job.data.messageId, "sent",
                                       <<"smtpResponse", job.jobId>>)
         /\ jobs' = (jobs \ {job})
                      \cup {[job EXCEPT !.state = "completed"]}
    /\ UNCHANGED <<tables, config, storeAuth, reqs, tracking,
                   emailSuppression, emailUsed, relayed, ingress, lastCheck, lastRender,
                   lastMail>>

\* sendMail resolved and the update to `sent`, which is inside the same try
\* block, throws: the catch block runs as it does for a relay error.  With
\* catchOk its own update goes through; without it that update throws too
\* and the rollback is not reached.  Either way the attempt has failed.
WorkerUpdateFails(jid, catchOk) ==
    /\ \E job \in jobs :
         /\ job.jobId = jid
         /\ job.state = "active"
         /\ job.result \in {"accepted", "partial"}
         /\ RelayErrors < MaxRelayErrors
         /\ emailEvent' = IF catchOk
                          THEN UpdateEvents(job.data.messageId, "failed",
                                            <<"attempt", job.attemptsMade + 1>>)
                          ELSE emailEvent
         /\ emailUsed' = IF catchOk THEN RollbackUsed(job) ELSE emailUsed
         /\ jobs' = (jobs \ {job}) \cup {AfterFailure(job)}
    /\ UNCHANGED <<tables, config, storeAuth, reqs, tracking,
                   emailSuppression, relayed, ingress, lastCheck, lastRender,
                   lastMail>>

\* sendMail threw: the events become `failed`, the quota is rolled back on
\* the last attempt, and the error is rethrown to the queue.
WorkerFail(jid) ==
    /\ \E job \in jobs :
         /\ job.jobId = jid
         /\ job.state = "active"
         /\ job.result = "error"
         /\ emailEvent' = UpdateEvents(job.data.messageId, "failed",
                                       <<"attempt", job.attemptsMade + 1>>)
         /\ emailUsed' = RollbackUsed(job)
         /\ jobs' = (jobs \ {job}) \cup {AfterFailure(job)}
    /\ UNCHANGED <<tables, config, storeAuth, reqs, tracking,
                   emailSuppression, relayed, ingress, lastCheck, lastRender,
                   lastMail>>

(***************************************************************************)
(* Tracking ingress (routes/tracking.ts).  Time is the number of the GET.  *)
(***************************************************************************)
Now == gets + 1

\* generateEventId()
TrackEventId == <<"evt", gets + 1>>

\* Buffer.from(TRANSPARENT_GIF_BASE64, 'base64')
TRANSPARENT_GIF == <<"GIF89a", "1x1", "transparent">>

\* The database operations of a tracking handler, in order; `fail` names
\* the one that throws, "none" when none does.
DbFailures == {"none", "find", "update", "insert"}

\* A pixel handler that answers with an error when the database throws.
OpenResponse_errorOnFail(id, found, fail) ==
    [kind |-> "open", id |-> id, found |-> found, fail |-> fail,
     status |-> IF fail = "none" THEN 200 ELSE 500,
     contentType |-> IF fail = "none" THEN "image/gif" ELSE "application/json",
     location |-> None,
     body |-> IF fail = "none" THEN TRANSPARENT_GIF
              ELSE <<"Tracking error">>]

\* The response of GET /t/o/:id: the catch block logs and falls through.
OpenResponse(id, found, fail) ==
    [kind |-> "open", id |-> id, found |-> found, fail |-> fail,
     status |-> 200, contentType |-> "image/gif", location |-> None,
     body |-> TRANSPARENT_GIF]

\* A click handler that redirects whether or not it finds the row.
ClickResponse_alwaysRedirect(id, rec, fail) ==
    [kind |-> "click", id |-> id, found |-> rec # None, fail |-> fail,
     status |-> 302, contentType |-> "none",
     location |-> IF rec = None THEN [url |-> <<"url", "", "">>]
                  ELSE [url |-> rec.originalUrl],
     body |-> <<>>]

\* The response of GET /t/c/:id; rec is the row found, None when there is
\* none; thrown reports whether a database operation threw.
ClickResponse(id, rec, fail) ==
    LET thrown == \/ fail = "find"
                  \/ rec # None /\ fail = "update"
                  \/ rec # None /\ fail = "insert" /\ rec.clickedAt = 0
    IN  IF thrown
        THEN [kind |-> "click", id |-> id, found |-> rec # None,
              fail |-> fail, status |-> 500,
              contentType |-> "application/json", location |-> None,
              body |-> <<"Tracking error">>]
        ELSE IF rec = None
        THEN [kind |-> "click", id |-> id, found |-> FALSE, fail |-> fail,
              status |-> 404, contentType |-> "application/json",
              location |-> None, body |-> <<"Link not found">>]
        ELSE [kind |-> "click", id |-> id, found |-> TRUE, fail |-> fail,
              status |-> 302, contentType |-> "none",
              location |-> [url |-> rec.originalUrl], body |-> <<>>]

\* GET /t/o/:id
TrackOpen(id, fail) ==
    /\ gets < MaxGets
    /\ gets' = gets + 1
    /\ LET found == {x \in emailTrackingOpen : x.id = id}
       IN  /\ IF found = {} \/ fail \in {"find", "update"}
              THEN UNCHANGED <<emailTrackingOpen, emailEvent>>
              ELSE LET rec == CHOOSE x \in found : TRUE
                   IN  /\ emailTrackingOpen' =
                             (emailTrackingOpen \ {rec})
                               \cup {[rec EXCEPT
                                        !.openedAt = IF rec.openedAt # 0
                                                     THEN rec.openedAt
                                                     ELSE Now,
                                        !.openCount = @ + 1]}
                       /\ emailEvent' =
                             IF rec.openedAt = 0 /\ fail # "insert"
                             THEN emailEvent \cup
                                    {[id |-> TrackEventId,
                                      userId |-> rec.userId,
                                      messageId |-> rec.messageId,
                                      eventType |-> "opened",
                                      recipientEmail |-> rec.recipientEmail,
                                      metadata |-> <<"trackingId", id,
                                                     rec.openCount + 1>>]}
                             ELSE emailEvent
           /\ lastGet' = OpenResponse(id, found # {} /\ fail # "find", fail)
    /\ UNCHANGED <<tables, config, storeAuth, reqs, emailTrackingLink,
                   emailSuppression, emailUsed, jobs, relayed, trk, lastCheck,
                   lastRender,
                   lastMail>>

\* GET /t/c/:id
TrackClick(id, fail) ==
    /\ gets < MaxGets
    /\ gets' = gets + 1
    /\ LET found == {x \in emailTrackingLink : x.id = id}
           rec == IF found = {} \/ fail = "find" THEN None
                  ELSE CHOOSE x \in found : TRUE
       IN  /\ IF rec = None \/ fail = "update"
              THEN UNCHANGED <<emailTrackingLink, emailEvent>>
              ELSE /\ emailTrackingLink' =
                         (emailTrackingLink \ {rec})
                           \cup {[rec EXCEPT
                                    !.clickedAt = IF rec.clickedAt # 0
                                                  THEN rec.clickedAt ELSE Now,
                                    !.clickCount = @ + 1]}
                   /\ emailEvent' =
                         IF rec.clickedAt = 0 /\ fail # "insert"
                         THEN emailEvent \cup
                                {[id |-> TrackEventId, userId |-> rec.userId,
                                  messageId |-> rec.messageId,
                                  eventType |-> "clicked",
                                  recipientEmail |-> rec.recipientEmail,
                                  metadata |-> <<"trackingId", id,
                                                 rec.clickCount + 1>>]}
                         ELSE emailEvent
           /\ lastGet' = ClickResponse(id, rec, fail)
    /\ UNCHANGED <<tables, config, storeAuth, reqs, emailTrackingOpen,
                   emailSuppression, emailUsed, jobs, relayed, trk, lastCheck,
                   lastRender,
                   lastMail>>

(***************************************************************************)
(* The tracking handlers statement by statement, so that GETs in flight    *)
(* interleave: findFirst, then the update, then the insert of the event    *)
(* on a first touch.  Time is the number of updates done so far.           *)
(***************************************************************************)
\* The rows a handler of this kind reads and updates.
TrackingTable(kind) ==
    IF kind = "open" THEN emailTrackingOpen ELSE emailTrackingLink

\* openedAt / clickedAt of a row.
TouchedAt(kind, row) == IF kind = "open" THEN row.openedAt ELSE row.clickedAt

\* openCount / clickCount of a row.
TouchCount(kind, row) ==
    IF kind = "open" THEN row.openCount ELSE row.clickCount

\* The GETs whose update statement has completed.
Updated == {g \in 1..Len(trk) : trk[g].rec # None
                                   /\ trk[g].pc \in {"insert", "done"}}

\* new Date() in the update statement
UpdateTime == Cardinality(Updated) + 1

\* An update that computes the counter from the row read by findFirst.
NextCount_fromRead(kind, cur, rec) == TouchCount(kind, rec) + 1

\* sql`${openCount} + 1`: the database adds one to the row's current value.
NextCount(kind, cur, rec) == TouchCount(kind, cur) + 1

\* trackingRecord.openedAt || new Date(): the value findFirst read, else now.
NextTouchedAt(kind, rec) ==
    IF TouchedAt(kind, rec) # 0 THEN TouchedAt(kind, rec) ELSE UpdateTime

\* A GET arrives; the handler has not touched the database yet.
GetArrive(kind, id) ==
    /\ Len(trk) < MaxConcGets
    /\ trk' = Append(trk, [kind |-> kind, id |-> id, pc |-> "find",
                           rec |-> None, status |-> 0])
    /\ UNCHANGED <<tables, config, storeAuth, reqs, emailEvent, tracking,
                   emailSuppression, emailUsed, jobs, relayed, gets, lastGet,
                   lastCheck, lastRender,
                   lastMail>>

\* db.query.<table>.findFirst({ where: eq(id, trackingId) })
GetFind(g) ==
    /\ g \in 1..Len(trk)
    /\ trk[g].pc = "find"
    /\ LET found == {x \in TrackingTable(trk[g].kind) : x.id = trk[g].id}
       IN  trk' = IF found = {}
                  THEN [trk EXCEPT ![g].pc = "done",
                                   ![g].status = IF trk[g].kind = "open"
                                                 THEN 200 ELSE 404]
                  ELSE [trk EXCEPT ![g].pc = "update",
                                   ![g].rec = CHOOSE x \in found : TRUE]
    /\ UNCHANGED <<tables, config, storeAuth, reqs, emailEvent, tracking,
                   emailSuppression, emailUsed, jobs, relayed, gets, lastGet,
                   lastCheck, lastRender,
                   lastMail>>

\* db.update(<table>).set({ openedAt | clickedAt, openCount | clickCount,
\* ... }).where(eq(id, trackingId))
GetUpdate(g) ==
    /\ g \in 1..Len(trk)
    /\ trk[g].pc = "update"
    /\ LET kind == trk[g].kind
           rec == trk[g].rec
           set(cur) ==
               IF cur.id # rec.id THEN cur
               ELSE IF kind = "open"
               THEN [cur EXCEPT !.openedAt = NextTouchedAt(kind, rec),
                                !.openCount = NextCount(kind, cur, rec)]
               ELSE [cur EXCEPT !.clickedAt = NextTouchedAt(kind, rec),
                                !.clickCount = NextCount(kind, cur, rec)]
       IN  /\ IF kind = "open"
              THEN /\ emailTrackingOpen' =
                         {set(cur) : cur \in emailTrackingOpen}
                   /\ UNCHANGED emailTrackingLink
              ELSE /\ emailTrackingLink' =
                         {set(cur) : cur \in emailTrackingLink}
                   /\ UNCHANGED emailTrackingOpen
           /\ trk' = IF TouchedAt(kind, rec) = 0
                     THEN [trk EXCEPT ![g].pc = "insert"]
                     ELSE [trk EXCEPT ![g].pc = "done",
                                      ![g].status = IF kind = "open"
                                                    THEN 200 ELSE 302]
    /\ UNCHANGED <<tables, config, storeAuth, reqs, emailEvent,
                   emailSuppression, emailUsed, jobs, relayed, gets, lastGet,
                   lastCheck, lastRender,
                   lastMail>>

\* if (!trackingRecord.openedAt) db.insert(emailEvent).values({...}), and the
\* response.
GetInsert(g) ==
    /\ g \in 1..Len(trk)
    /\ trk[g].pc = "insert"
    /\ LET kind == trk[g].kind
           rec == trk[g].rec
       IN  /\ emailEvent' = emailEvent \cup
                  {[id |-> <<"evt", "get", g>>, userId |-> rec.userId,
                    messageId |-> rec.messageId,
                    eventType |-> IF kind = "open" THEN "opened"
                                  ELSE "clicked",
                    recipientEmail |-> rec.recipientEmail,
                    metadata |-> <<"trackingId", rec.id,
                                   TouchCount(kind, rec) + 1>>]}
           /\ trk' = [trk EXCEPT ![g].pc = "done",
                                 ![g].status = IF kind = "open"
                                               THEN 200 ELSE 302]
    /\ UNCHANGED <<tables, config, storeAuth, reqs, tracking,
                   emailSuppression, emailUsed, jobs, relayed, gets, lastGet,
                   lastCheck, lastRender,
                   lastMail>>


(***************************************************************************)
(* The send pipeline: requests with the key of tenant u1, the worker and   *)
(* the tracking ingress.                                                   *)
(***************************************************************************)
UrlA == <<"url", "https://a", "">>
Html1 == [anchors |-> <<UrlA>>, pixels |-> <<>>]
FromOf(d) == [name |-> "", host |-> DomainName[d], wellFormed |-> TRUE]

SendBodies ==
    {[from |-> FromOf("d1"), to |-> t, subject |-> TRUE, html |-> h,
      text |-> TRUE, disableTracking |-> FALSE] :
        t \in {[one |-> Email("b")], [many |-> <<Email("a"), Email("b")>>]},
        h \in {Html1}}

\* A suppression row as POST /suppressions leaves it.
ManualRow(u, n) ==
    [id |-> <<"sup", 0>>, userId |-> u, domainId |-> "", email |-> Email(n),
     reason |-> "manual",
     metadata |-> [softBounceCount |-> 0, upgradedAt |-> 0, auto |-> FALSE]]

NoGet == [kind |-> "none", id |-> <<"none">>, found |-> FALSE, fail |-> "none",
          status |-> 0, contentType |-> "none", location |-> None,
          body |-> <<>>]
NoRender == [template |-> None, variables |-> <<>>, result |-> None]
NoMail == [data |-> None, headers |-> NoHeaders]
NoCheck == [userId |-> "", emails |-> <<>>, domainId |-> "", result |-> {}]

\* The ids a tracking GET can carry: those a recipient finds in a relayed
\* message, those of the rows of a relayed message, and an id that was
\* never issued.
UnknownId == <<"zz">>
RelayedHtml == {e.html : e \in {x \in relayed : x.html # None}}
PixelIds == UNION {{h.pixels[i] : i \in 1..Len(h.pixels)} : h \in RelayedHtml}
LinkIds == UNION {{h.anchors[i][2] :
                      i \in {n \in 1..Len(h.anchors) : h.anchors[n][1] = "t/c"}} :
                  h \in RelayedHtml}
RelayedMessages == {e.messageId : e \in relayed}
OpenIds == PixelIds \cup {UnknownId}
             \cup {x.id : x \in {y \in emailTrackingOpen :
                                    y.messageId \in RelayedMessages}}
ClickIds == LinkIds \cup {UnknownId}

WarmStore == [apiKey |-> "k1", domain |-> "d1", user |-> "u1",
              billing |-> [id |-> "b1", emailLimit |-> InitialLimit,
                           emailUsed |-> 0]]

\* The state after boot, the tenant tables aside.
Booted ==
    /\ lastUsedAt = [k \in Keys |-> FALSE]
    /\ enableOpenTracking = TRUE
    /\ enableClickTracking = TRUE
    /\ emailUsed = [b \in Billings |-> 0]
    /\ reqs = <<>>
    /\ emailEvent = {}
    /\ emailTrackingOpen = {}
    /\ emailTrackingLink = {}
    /\ jobs = {}
    /\ relayed = {}
    /\ gets = 0
    /\ lastGet = NoGet
    /\ trk = <<>>
    /\ lastCheck = NoCheck
    /\ lastRender = NoRender
    /\ lastMail = NoMail

Init ==
    /\ Booted
    /\ isActive = [k \in Keys |-> TRUE]
    /\ txtVerified = [d \in Domains |-> TRUE]
    /\ storeAuth \in {None, WarmStore}
    /\ emailSuppression = {ManualRow("u1", "a")}

K1Header == BearerHeader(KeyToken["k1"], FALSE)

Next ==
    \/ \E b \in SendBodies :
           Len(reqs) < MaxReq /\ ReqArrive("send", K1Header, b)
    \/ \E r \in 1..MaxReq : ReqGate(r, TRUE, TRUE)
    \/ \E r \in 1..MaxReq : SendInsert(r)
    \/ \E r \in 1..MaxReq : SendIncrement(r)
    \/ \E r \in 1..MaxReq : SendEnqueue(r)
    \/ \E j \in 1..MaxReq : \E accepted \in BOOLEAN : WorkerDial(j, accepted)
    \/ \E j \in 1..MaxReq : WorkerSucceed(j)
    \/ \E j \in 1..MaxReq : WorkerFail(j)

Spec == Init /\ [][Next]_vars

\* The send pipeline with a relay that may reject part of the recipients.
NextRelay ==
    \/ Next
    \/ \E j \in 1..MaxReq : \E n \in 1..MaxRcpt : WorkerDialPartial(j, n)

SpecRelay == Init /\ [][NextRelay]_vars

\* The send pipeline with a database and a queue that may fail under the
\* send handler.
NextSendFail ==
    \/ Next
    \/ \E r \in 1..MaxReq : SendThrows(r)

SpecSendFail == Init /\ [][NextSendFail]_vars

\* The send pipeline with a database that may fail under the worker.
NextDbFail ==
    \/ Next
    \/ \E j \in 1..MaxReq : \E catchOk \in BOOLEAN :
           WorkerUpdateFails(j, catchOk)

SpecDbFail == Init /\ [][NextDbFail]_vars

\* The worker process keeps taking jobs and finishes every attempt.
SpecLive ==
    /\ Init
    /\ [][Next]_vars
    /\ \A j \in 1..MaxReq :
           /\ WF_vars(\E accepted \in BOOLEAN : WorkerDial(j, accepted))
           /\ WF_vars(WorkerSucceed(j))
           /\ WF_vars(WorkerFail(j))

(***************************************************************************)
(* The send pipeline with the recipients of relayed messages following     *)
(* the pixel and the links.                                                *)
(***************************************************************************)
InitTrack ==
    /\ Booted
    /\ isActive = [k \in Keys |-> TRUE]
    /\ txtVerified = [d \in Domains |-> TRUE]
    /\ storeAuth = WarmStore
    /\ emailSuppression = {}

NextTrack ==
    \/ \E b \in SendBodies :
           Len(reqs) < MaxTrackReq /\ ReqArrive("send", K1Header, b)
    \/ \E r \in 1..MaxTrackReq : ReqGate(r, TRUE, TRUE)
    \/ \E r \in 1..MaxTrackReq : SendInsert(r)
    \/ \E r \in 1..MaxTrackReq : SendIncrement(r)
    \/ \E r \in 1..MaxTrackReq : SendEnqueue(r)
    \/ \E j \in 1..MaxTrackReq :
           \E accepted \in BOOLEAN : WorkerDial(j, accepted)
    \/ \E j \in 1..MaxTrackReq : WorkerSucceed(j)
    \/ \E j \in 1..MaxTrackReq : WorkerFail(j)
    \/ \E id \in OpenIds : TrackOpen(id, "none")
    \/ \E id \in ClickIds : TrackClick(id, "none")

SpecTrack == InitTrack /\ [][NextTrack]_vars

(***************************************************************************)
(* Sends whose recipient list may name an address more than once.          *)
(***************************************************************************)
RECURSIVE Lists(_)
\* The lists of up to n addresses over Names.
Lists(n) ==
    IF n = 0 THEN {<<>>}
    ELSE Lists(n - 1)
           \cup {Append(l, Email(x)) : l \in Lists(n - 1), x \in Names}

RepeatBodies ==
    {[from |-> FromOf("d1"), to |-> [many |-> l], subject |-> TRUE,
      html |-> h, text |-> TRUE, disableTracking |-> FALSE] :
        l \in Lists(MaxRcpt) \ {<<>>}, h \in {Html1, None}}

NextRepeat ==
    \/ \E b \in RepeatBodies :
           Len(reqs) < MaxTrackReq /\ ReqArrive("send", K1Header, b)
    \/ \E r \in 1..MaxTrackReq : ReqGate(r, TRUE, TRUE)
    \/ \E r \in 1..MaxTrackReq : SendInsert(r)
    \/ \E r \in 1..MaxTrackReq : SendIncrement(r)
    \/ \E r \in 1..MaxTrackReq : SendEnqueue(r)
    \/ \E j \in 1..MaxTrackReq :
           \E accepted \in BOOLEAN : WorkerDial(j, accepted)
    \/ \E j \in 1..MaxTrackReq : WorkerSucceed(j)
    \/ \E j \in 1..MaxTrackReq : WorkerFail(j)

SpecRepeat == InitTrack /\ [][NextRepeat]_vars

(***************************************************************************)
(* Sends made with the keys of both tenants, from a fresh process.         *)
(***************************************************************************)
KeyBody(k) ==
    [from |-> FromOf(KeyDomain[k]), to |-> [one |-> Email("b")],
     subject |-> TRUE, html |-> None, text |-> TRUE, disableTracking |-> FALSE]

\* .state('auth', null)
InitKeys ==
    /\ Booted
    /\ isActive = [k \in Keys |-> TRUE]
    /\ txtVerified = [d \in Domains |-> TRUE]
    /\ storeAuth = None
    /\ emailSuppression = {}

NextKeys ==
    \/ \E k \in Keys : \E d \in Keys :
           /\ Len(reqs) < MaxReq
           /\ ReqArrive("send", BearerHeader(KeyToken[k], FALSE), KeyBody(d))
    \/ \E r \in 1..MaxReq : ReqGate(r, TRUE, TRUE)
    \/ \E r \in 1..MaxReq : SendInsert(r)
    \/ \E r \in 1..MaxReq : SendIncrement(r)
    \/ \E r \in 1..MaxReq : SendEnqueue(r)

SpecKeys == InitKeys /\ [][NextKeys]_vars

(***************************************************************************)
(* The send pipeline and the tracking ingress under every setting of       *)
(* ENABLE_OPEN_TRACKING and ENABLE_CLICK_TRACKING.                         *)
(***************************************************************************)
InitConfig ==
    /\ lastUsedAt = [k \in Keys |-> FALSE]
    /\ enableOpenTracking \in BOOLEAN
    /\ enableClickTracking \in BOOLEAN
    /\ isActive = [k \in Keys |-> TRUE]
    /\ txtVerified = [d \in Domains |-> TRUE]
    /\ emailUsed = [b \in Billings |-> 0]
    /\ storeAuth = WarmStore
    /\ reqs = <<>>
    /\ emailEvent = {}
    /\ emailTrackingOpen = {}
    /\ emailTrackingLink = {}
    /\ emailSuppression = {}
    /\ jobs = {}
    /\ relayed = {}
    /\ gets = 0
    /\ lastGet = NoGet
    /\ trk = <<>>
    /\ lastCheck = NoCheck
    /\ lastRender = NoRender
    /\ lastMail = NoMail

SpecConfig == InitConfig /\ [][NextTrack]_vars

(***************************************************************************)
(* DELETE /suppressions/:id by both tenants on a list both have added to.  *)
(***************************************************************************)
SeedRow(i, u, n, reason) ==
    [id |-> <<"sup", "seed", i>>, userId |-> u, domainId |-> "",
     email |-> Email(n), reason |-> reason,
     metadata |-> [softBounceCount |-> 0, upgradedAt |-> 0, auto |-> FALSE]]

SeedRows ==
    {SeedRow(1, "u1", "a", "manual"), SeedRow(2, "u2", "a", "manual"),
     SeedRow(3, "u1", "b", "hard_bounce")}

DeleteIds == {x.id : x \in SeedRows} \cup {<<"sup", "zz">>}

InitDelete ==
    /\ Booted
    /\ isActive = [k \in Keys |-> TRUE]
    /\ txtVerified = [d \in Domains |-> TRUE]
    /\ storeAuth \in {AuthContextOf(k) : k \in Keys}
    /\ emailSuppression = SeedRows

NextDelete ==
    \/ \E k \in Keys : \E id \in DeleteIds :
           /\ Len(reqs) < MaxReq
           /\ ReqArrive("delete", BearerHeader(KeyToken[k], FALSE),
                        [id |-> id])
    \/ \E r \in 1..MaxReq : ReqGate(r, TRUE, TRUE)
    \/ \E r \in 1..MaxReq : DeleteFind(r)
    \/ \E r \in 1..MaxReq : DeleteRemove(r)

SpecDelete == InitDelete /\ [][NextDelete]_vars

(***************************************************************************)
(* Sends in flight together, a relay that accepts, and the recipients'     *)
(* GETs in flight together.                                                *)
(***************************************************************************)
\* Sends to one recipient.
SingleBodies == {b \in SendBodies : "one" \in DOMAIN b.to}

\* The pixel and link ids in the first message, once it is relayed.
FirstMessage == {MessageId(1, "d1")} \cap RelayedMessages
FirstPixelIds == {x.id : x \in {y \in emailTrackingOpen :
                                   y.messageId \in FirstMessage}}
FirstLinkIds == {x.id : x \in {y \in emailTrackingLink :
                                  y.messageId \in FirstMessage}}

NextGets ==
    \/ \E b \in SingleBodies :
           Len(reqs) < MaxReq /\ ReqArrive("send", K1Header, b)
    \/ \E r \in 1..MaxReq : ReqGate(r, TRUE, TRUE)
    \/ \E r \in 1..MaxReq : SendInsert(r)
    \/ \E r \in 1..MaxReq : SendIncrement(r)
    \/ \E r \in 1..MaxReq : SendEnqueue(r)
    \/ \E j \in 1..MaxReq : WorkerDial(j, TRUE)
    \/ \E j \in 1..MaxReq : WorkerSucceed(j)
    \/ \E id \in FirstPixelIds : GetArrive("open", id)
    \/ \E id \in FirstLinkIds : GetArrive("click", id)
    \/ \E g \in 1..MaxConcGets : GetFind(g)
    \/ \E g \in 1..MaxConcGets : GetUpdate(g)
    \/ \E g \in 1..MaxConcGets : GetInsert(g)

SpecGets == InitTrack /\ [][NextGets]_vars

(***************************************************************************)
(* The auth gate in front of POST /send, over every state of the key and   *)
(* domain tables and every shape of Authorization header.                  *)
(***************************************************************************)
Headers ==
    {None,
     [prefix |-> "Basic ", tok |-> "tok1", pad |-> FALSE],
     [prefix |-> "bearer ", tok |-> "tok1", pad |-> FALSE],
     BearerHeader("", TRUE),
     BearerHeader("tokX", FALSE),
     BearerHeader("tok1", FALSE),
     BearerHeader("tok1", TRUE),
     BearerHeader("tok2", FALSE)}

OneBody ==
    [from |-> FromOf("d1"), to |-> [one |-> Email("b")], subject |-> TRUE,
     html |-> None, text |-> TRUE, disableTracking |-> FALSE]

InitAuth ==
    /\ Booted
    /\ isActive \in [Keys -> BOOLEAN]
    /\ txtVerified \in [Domains -> BOOLEAN]
    /\ storeAuth \in {None, WarmStore}
    /\ emailSuppression = {}

NextAuth ==
    \/ \E h \in Headers :
           Len(reqs) < MaxAuthReq /\ ReqArrive("send", h, OneBody)
    \/ \E r \in 1..MaxAuthReq : \E lookupOk \in BOOLEAN :
           \E updateOk \in BOOLEAN : ReqGate(r, lookupOk, updateOk)
    \/ \E r \in 1..MaxAuthReq : SendInsert(r)
    \/ \E r \in 1..MaxAuthReq : SendIncrement(r)
    \/ \E r \in 1..MaxAuthReq : SendEnqueue(r)

SpecAuth == InitAuth /\ [][NextAuth]_vars

(***************************************************************************)
(* checkSuppression over the tables the engine can leave behind.           *)
(***************************************************************************)
UpperPadded(n) == <<n, TRUE, TRUE>>
Upper(n) == <<n, TRUE, FALSE>>

CandidateRows ==
    {[id |-> <<"sup", u, d, reason>>, userId |-> u, domainId |-> d,
      email |-> Email("a"), reason |-> reason,
      metadata |-> [softBounceCount |-> 0, upgradedAt |-> 0, auto |-> FALSE]] :
        u \in Users, d \in {"", "d1", "d2"},
        reason \in {"soft_bounce", "manual", "hard_bounce"}}
      \cup {ManualRow("u1", "b")}

\* the unique index holds in every table
UniqueTables ==
    {t \in SUBSET CandidateRows :
        /\ Cardinality(t) <= 3
        /\ \A x, y \in t :
               (x.userId = y.userId /\ x.email = y.email) => x = y}

CheckInputs ==
    {<<>>, <<Email("a")>>, <<Upper("a")>>, <<Email("b"), Upper("a")>>}

InitCheck ==
    /\ Booted
    /\ isActive = [k \in Keys |-> TRUE]
    /\ txtVerified = [d \in Domains |-> TRUE]
    /\ storeAuth = None
    /\ emailSuppression \in UniqueTables

NextCheck ==
    \E u \in Users : \E emails \in CheckInputs : \E d \in {"", "d1", "d2"} :
        CheckCall(u, emails, d)

SpecCheck == InitCheck /\ [][NextCheck]_vars

(***************************************************************************)
(* Soft bounces reported through POST /events one after another.           *)
(***************************************************************************)
AllDone == \A r \in 1..Len(reqs) : reqs[r].pc = "done"

BounceBodies ==
    {[eventType |-> "bounced", recipientEmail |-> e,
      bounceType |-> "soft_bounce", messageId |-> m] :
        e \in {Email("a"), UpperPadded("a")}, m \in {None, [id |-> <<"m">>]}}

InitBounce ==
    /\ Booted
    /\ isActive = [k \in Keys |-> TRUE]
    /\ txtVerified = [d \in Domains |-> TRUE]
    /\ storeAuth = WarmStore
    /\ emailSuppression = {}

NextBounce ==
    \/ \E b \in BounceBodies :
           /\ AllDone
           /\ Len(reqs) < MaxBounces
           /\ ReqArrive("events", K1Header, b)
    \/ \E r \in 1..MaxBounces : ReqGate(r, TRUE, TRUE)
    \/ \E r \in 1..MaxBounces : EventInsert(r)
    \/ \E r \in 1..MaxBounces : SuppressionFind(r)
    \/ \E r \in 1..MaxBounces : SuppressionWrite(r)

SpecBounce == InitBounce /\ [][NextBounce]_vars

(***************************************************************************)
(* Soft bounces reported through POST /events concurrently.                *)
(***************************************************************************)
NextOverlap ==
    \/ \E b \in BounceBodies :
           Len(reqs) < MaxBounces /\ ReqArrive("events", K1Header, b)
    \/ \E r \in 1..MaxBounces : ReqGate(r, TRUE, TRUE)
    \/ \E r \in 1..MaxBounces : EventInsert(r)
    \/ \E r \in 1..MaxBounces : SuppressionFind(r)
    \/ \E r \in 1..MaxBounces : SuppressionWrite(r)

SpecOverlap == InitBounce /\ [][NextOverlap]_vars

(***************************************************************************)
(* POST /events and POST /suppressions running concurrently.               *)
(***************************************************************************)
SoftRow(u, n, count) ==
    [id |-> <<"sup", 0>>, userId |-> u, domainId |-> "d1", email |-> Email(n),
     reason |-> "soft_bounce",
     metadata |-> [softBounceCount |-> count, upgradedAt |-> 0,
                   auto |-> FALSE]]

EventBodies ==
    {[eventType |-> t[1], recipientEmail |-> e, bounceType |-> t[2],
      messageId |-> None] :
        e \in {Email("a"), UpperPadded("a")},
        t \in {<<"bounced", "soft_bounce">>, <<"bounced", "">>,
               <<"complained", "">>, <<"unsubscribed", "">>,
               <<"delivered", "">>}}

SuppressionBodies ==
    {[email |-> e, reason |-> t[1], domainId |-> t[2]] :
        e \in {Email("a"), UpperPadded("a")},
        t \in {<<"manual", "">>, <<"soft_bounce", "d1">>, <<"spam", "">>,
               <<"manual", "d2">>}}

InitSupp ==
    /\ Booted
    /\ isActive = [k \in Keys |-> TRUE]
    /\ txtVerified = [d \in Domains |-> TRUE]
    /\ storeAuth = WarmStore
    /\ emailSuppression \in {{}, {SoftRow("u1", "a", 2)}}

NextSupp ==
    \/ \E b \in EventBodies :
           Len(reqs) < MaxReq /\ ReqArrive("events", K1Header, b)
    \/ \E b \in SuppressionBodies :
           Len(reqs) < MaxReq /\ ReqArrive("suppressions", K1Header, b)
    \/ \E r \in 1..MaxReq : ReqGate(r, TRUE, TRUE)
    \/ \E r \in 1..MaxReq : EventInsert(r)
    \/ \E r \in 1..MaxReq : SuppressionFind(r)
    \/ \E r \in 1..MaxReq : SuppressionWrite(r)

SpecSupp == InitSupp /\ [][NextSupp]_vars

(***************************************************************************)
(* POST /events and POST /suppressions with GET /suppressions/check.       *)
(***************************************************************************)
CheckQueries == {[email |-> e] : e \in {None, Email("a"), Upper("a")}}

NextSuppCheck ==
    \/ NextSupp
    \/ \E q \in CheckQueries :
           Len(reqs) < MaxReq /\ ReqArrive("check", K1Header, q)
    \/ \E r \in 1..MaxReq : SuppressionCheck(r)

SpecSuppCheck == InitSupp /\ [][NextSuppCheck]_vars

(***************************************************************************)
(* The tracking ingress for the recipients of one message with two links,  *)
(* one of them twice, and an unsubscribe link; any database operation of   *)
(* a tracking handler may throw.                                           *)
(***************************************************************************)
UrlB == <<"url", "https://b", "">>
UrlUnsubscribe == <<"url", "https://a", "Unsubscribe">>
Html2 == [anchors |-> <<UrlA, UrlB, UrlA, UrlUnsubscribe>>, pixels |-> <<>>]

IngressBodies ==
    {[from |-> FromOf("d1"), to |-> [many |-> <<Email("a"), Email("b")>>],
      subject |-> TRUE, html |-> Html2, text |-> TRUE,
      disableTracking |-> FALSE]}

\* The ids found in the HTML handed to the queue, the ids of the rows of a
\* queued message, and an id that was never issued.
QueuedHtml == {j.data.html : j \in {x \in jobs : x.data.html # None}}
QueuedMessages == {j.data.messageId : j \in jobs}
IngressOpenIds ==
    UNION {{h.pixels[i] : i \in 1..Len(h.pixels)} : h \in QueuedHtml}
      \cup {x.id : x \in {y \in emailTrackingOpen :
                             y.messageId \in QueuedMessages}}
      \cup {UnknownId}
IngressClickIds ==
    UNION {{h.anchors[i][2] :
               i \in {n \in 1..Len(h.anchors) : h.anchors[n][1] = "t/c"}} :
           h \in QueuedHtml}
      \cup {UnknownId}

NextIngress ==
    \/ \E b \in IngressBodies :
           reqs = <<>> /\ ReqArrive("send", K1Header, b)
    \/ ReqGate(1, TRUE, TRUE)
    \/ SendInsert(1)
    \/ SendIncrement(1)
    \/ SendEnqueue(1)
    \/ \E id \in IngressOpenIds : \E fail \in DbFailures : TrackOpen(id, fail)
    \/ \E id \in IngressClickIds : \E fail \in DbFailures : TrackClick(id, fail)

SpecIngress == InitTrack /\ [][NextIngress]_vars

(***************************************************************************)
(* The tracking rewriter over every sequence of anchors, as POST /send     *)
(* applies it to body.html.                                                *)
(***************************************************************************)
UrlFragment == <<"url", "https://b", "#">>
RewriteUrls == {UrlA, UrlB, UrlUnsubscribe, UrlFragment}

RewriteBodies ==
    {[from |-> FromOf("d1"), to |-> [one |-> Email("b")], subject |-> TRUE,
      html |-> [anchors |-> a, pixels |-> <<>>], text |-> TRUE,
      disableTracking |-> FALSE] :
        a \in UNION {[1..n -> RewriteUrls] : n \in 0..MaxAnchors}}

NextRewrite ==
    \/ \E b \in RewriteBodies : reqs = <<>> /\ ReqArrive("send", K1Header, b)
    \/ ReqGate(1, TRUE, TRUE)
    \/ SendInsert(1)
    \/ SendIncrement(1)
    \/ SendEnqueue(1)

SpecRewrite == InitTrack /\ [][NextRewrite]_vars

(***************************************************************************)
(* POST /events over every event type and bounce type.                     *)
(***************************************************************************)
EventInputs ==
    {[eventType |-> t, recipientEmail |-> UpperPadded("a"), bounceType |-> bt,
      messageId |-> None] :
        t \in EVENT_TYPES \cup {"exploded"},
        bt \in {"", "soft_bounce", "transient"}}

NextEvents ==
    \/ \E b \in EventInputs :
           Len(reqs) < MaxAuthReq /\ ReqArrive("events", K1Header, b)
    \/ \E r \in 1..MaxAuthReq : ReqGate(r, TRUE, TRUE)
    \/ \E r \in 1..MaxAuthReq : EventInsert(r)
    \/ \E r \in 1..MaxAuthReq : SuppressionFind(r)
    \/ \E r \in 1..MaxAuthReq : SuppressionWrite(r)

SpecEvents == InitSupp /\ [][NextEvents]_vars

(***************************************************************************)
(* The synchronous checks of POST /send over the shapes of `from`, the     *)
(* recipient counts and the values of the usage counter.  The key          *)
(* presented is the one whose context the store holds, and the context     *)
(* carries the counter as a lookup reads it.                               *)
(***************************************************************************)
FromInputs ==
    {[name |-> nm, host |-> <<h, up>>, wellFormed |-> TRUE] :
        nm \in {"", "Ann"}, h \in {"example.com", "other.org"},
        up \in BOOLEAN}
      \cup {[name |-> "", host |-> <<"example.com", FALSE>>,
             wellFormed |-> FALSE]}

PreflightBodies ==
    {[from |-> f, to |-> t, subject |-> TRUE, html |-> None, text |-> TRUE,
      disableTracking |-> FALSE] :
        f \in FromInputs,
        t \in {[one |-> Email("b")], [many |-> <<Email("a"), Email("b")>>]}}

InitPreflight ==
    /\ lastUsedAt = [k \in Keys |-> FALSE]
    /\ enableOpenTracking = TRUE
    /\ enableClickTracking = TRUE
    /\ isActive = [k \in Keys |-> TRUE]
    /\ txtVerified = [d \in Domains |-> TRUE]
    /\ emailUsed \in [Billings -> 0..InitialLimit]
    /\ storeAuth \in {AuthContextOf(k) : k \in Keys}
    /\ reqs = <<>>
    /\ emailEvent = {}
    /\ emailTrackingOpen = {}
    /\ emailTrackingLink = {}
    /\ emailSuppression = {}
    /\ jobs = {}
    /\ relayed = {}
    /\ gets = 0
    /\ lastGet = NoGet
    /\ trk = <<>>
    /\ lastCheck = NoCheck
    /\ lastRender = NoRender
    /\ lastMail = NoMail

NextPreflight ==
    \/ \E b \in PreflightBodies :
           /\ Len(reqs) < MaxAuthReq
           /\ ReqArrive("send",
                        BearerHeader(KeyToken[storeAuth.apiKey], FALSE), b)
    \/ \E r \in 1..MaxAuthReq : ReqGate(r, TRUE, TRUE)
    \/ \E r \in 1..MaxAuthReq : SendInsert(r)
    \/ \E r \in 1..MaxAuthReq : SendIncrement(r)
    \/ \E r \in 1..MaxAuthReq : SendEnqueue(r)

SpecPreflight == InitPreflight /\ [][NextPreflight]_vars

(***************************************************************************)
(* renderTemplate over the variables a caller can send.                    *)
(***************************************************************************)
\* The text of a template.
Tpl(chars) == [i \in 1..Len(chars) |-> <<chars[i], "tpl">>]

\* <p>{{a}}{{ b }}, with subject {{a}}, and a declared variable b.
Template(default) ==
    [id |-> "t1",
     subject |-> Tpl(<<"{", "{", "a", "}", "}">>),
     htmlContent |-> Tpl(<<"<", "p", ">", "{", "{", "a", "}", "}",
                           "{", "{", " ", "b", " ", "}", "}">>),
     variables |-> <<[name |-> <<"b">>, defaultValue |-> default]>>]

VariableNames == {<<"a">>, <<"b">>, <<"a", "|", "a", "m", "p", ";", "|", "b">>}

VariableValues ==
    {<<>>, <<"<", ">">>, <<"dq", "sq">>, <<"&">>, <<"$", "bq">>, <<"$", "&">>,
     <<"$", "sq">>, <<"{", "{", "b", "}", "}">>}

\* Object.entries(variables): distinct names, in insertion order
VariableEntries ==
    UNION {{e \in [1..n -> [key : VariableNames, value : VariableValues]] :
               \A i \in 1..n : \A j \in 1..n : e[i].key = e[j].key => i = j} :
           n \in 0..MaxVars}

\* One call per behaviour: the renderer keeps nothing between calls.
NextRender ==
    \E d \in {<<>>, <<"<">>, <<"&">>} : \E v \in VariableEntries :
        lastRender = NoRender /\ RenderCall(Template(d), v)

SpecRender == InitTrack /\ [][NextRender]_vars

(***************************************************************************)
(* The envelope headers of a job whose caller supplied headers.            *)
(***************************************************************************)
HeaderNames == {"X-User-Id", "X-Domain-Id", "X-Campaign"}
HeaderValues == {"u2", "spring"}

\* t.Optional(t.Record(t.String(), t.String()))
CallerHeaders ==
    {None} \cup UNION {[n -> HeaderValues] : n \in SUBSET HeaderNames}

MailJobs ==
    [messageId : {"m1"}, userId : Users, domainId : Domains, apiKeyId : Keys,
     headers : CallerHeaders]

\* One envelope per behaviour: the construction keeps nothing between jobs.
NextMail == \E data \in MailJobs : lastMail = NoMail /\ MailCall(data)

SpecMail == InitTrack /\ [][NextMail]_vars

(***************************************************************************)
(* Properties of the send pipeline.                                        *)
(***************************************************************************)
Blocked(userId, email, domainId) ==
    checkSuppression(userId, <<email>>, domainId) # {}

\* C1: a recipient that checkSuppression reports as blocked for the sending
\* tenant and domain has no queued emailEvent row, is not in the `to` list
\* of an enqueued job, and is not counted in emailUsed.  (The suppression
\* table does not change in Spec, so "at accept time" is "now".)
C1_SuppressedFiltered ==
    /\ \A j \in jobs : \A i \in 1..Len(j.data.to) :
           ~Blocked(j.data.userId, j.data.to[i], j.data.domainId)
    /\ \A r \in 1..Len(reqs) :
           reqs[r].pc \in {"insert", "increment", "enqueue"} \/ reqs[r].status = 200
               => \A e \in emailEvent :
                      e.messageId = MessageId(r, reqs[r].auth.domain)
                          => ~Blocked(e.userId, e.recipientEmail,
                                      reqs[r].auth.domain)

\* The step in which request r is answered with 200.
Accepted(r) ==
    /\ r <= Len(reqs)
    /\ reqs[r].status # 200
    /\ reqs'[r].status = 200

C2_AtAccept(r) ==
    LET req == reqs'[r]
        R == Recipients(req.body.to)
        m == req.resp.messageId
        rows == {e \in emailEvent' : e.messageId = m}
        queue == {j \in jobs' : j.data.messageId = m}
    IN  /\ Cardinality(rows) = Len(R)
        /\ \A e \in rows : e.eventType = "queued"
        /\ \A i \in 1..Len(R) :
               \E e \in rows : e.id = <<"ev", r, i>> /\ e.recipientEmail = R[i]
        /\ req.resp.recipients = Len(R)
        /\ req.resp.status = "queued"
        /\ Cardinality(queue) = 1
        /\ \A j \in queue : j.data.to = R /\ j \notin jobs

\* C2: when POST /send answers 200 for the recipient list R, exactly |R|
\* emailEvent rows of type queued carry the returned messageId, one per list
\* entry, the response reports recipients = |R| and status queued, and
\* exactly one job with that messageId and those recipients is in the queue.
C2_AcceptedIsDurable ==
    [][\A r \in 1..MaxReq : Accepted(r) => C2_AtAccept(r)]_vars

C2_Witness ==
    \E r \in 1..Len(reqs) :
        /\ reqs[r].status = 200
        /\ Len(Recipients(reqs[r].body.to)) = 2
        /\ Cardinality({e \in emailEvent :
                           e.messageId = reqs[r].resp.messageId}) = 2

\* The request has incremented emailUsed.
Charged(r) == reqs[r].pc = "enqueue" \/ reqs[r].status = 200

\* The job of request r has exhausted its attempts.
TerminallyFailed(r) == \E j \in jobs : j.jobId = r /\ j.state = "failed"

RECURSIVE NetUsed(_)
\* The recipients of the first k requests that are charged and whose job
\* has not failed terminally.
NetUsed(k) ==
    IF k = 0 THEN 0
    ELSE NetUsed(k - 1)
           + (IF Charged(k) /\ ~TerminallyFailed(k)
              THEN Len(Recipients(reqs[k].body.to)) ELSE 0)

\* C4: each accepted send with |R| recipients contributes +|R| to emailUsed
\* from its increment on, and 0 once its job has failed terminally; emailUsed
\* is never negative.
C4_QuotaNet ==
    /\ emailUsed["b1"] = NetUsed(Len(reqs))
    /\ \A b \in Billings : emailUsed[b] >= 0

C4_Witness ==
    \E j1 \in jobs : \E j2 \in jobs :
        /\ j1.state = "failed"
        /\ j2.state = "completed"
        /\ emailUsed["b1"] = Len(j2.data.to)

QueuedRow(r, n) ==
    /\ r <= Len(reqs)
    /\ reqs[r].status = 200
    /\ \E e \in emailEvent : e.id = <<"ev", r, n>> /\ e.eventType = "queued"

SettledRow(r, n) ==
    \E e \in emailEvent :
        e.id = <<"ev", r, n>> /\ e.eventType \in {"sent", "failed"}

\* C5: every queued row of an accepted send eventually has type sent or
\* failed, when the worker keeps taking jobs and finishes every attempt.
C5_EventuallySettled ==
    \A r \in 1..MaxReq : \A n \in 1..MaxRcpt :
        QueuedRow(r, n) ~> SettledRow(r, n)

C5_Witness ==
    \E r \in 1..Len(reqs) :
        /\ reqs[r].status = 200
        /\ SettledRow(r, 1)
        /\ \E j \in jobs : j.jobId = r /\ j.attemptsMade = 2
                              /\ j.state = "completed"

\* C10: for every accepted send with open tracking, the id carried by the
\* pixel of the outgoing HTML is the id of an emailTrackingOpen row of that
\* message.
C10_PixelIdentifiesRow ==
    \A r \in 1..Len(reqs) :
        (reqs[r].status = 200 /\ reqs[r].track # None)
            => \A i \in 1..Len(reqs[r].html.pixels) :
                   \E row \in emailTrackingOpen :
                       /\ row.id = reqs[r].html.pixels[i]
                       /\ row.messageId = reqs[r].resp.messageId

(***************************************************************************)
(* Properties of the event rows under tracking.                            *)
(***************************************************************************)
Distinct(seq) ==
    \A i \in 1..Len(seq) : \A j \in 1..Len(seq) : seq[i] = seq[j] => i = j

\* C3: for every accepted message with pairwise distinct recipients there is
\* exactly one emailEvent row per (messageId, recipient) whose type is
\* queued, sent or failed.
C3_OneLifecycleRow ==
    \A r \in 1..Len(reqs) :
        (reqs[r].status = 200 /\ Distinct(reqs[r].rcpts))
            => \A i \in 1..Len(reqs[r].rcpts) :
                   Cardinality({e \in emailEvent :
                       /\ e.messageId = reqs[r].resp.messageId
                       /\ e.recipientEmail = reqs[r].rcpts[i]
                       /\ e.eventType \in {"queued", "sent", "failed"}}) = 1

(***************************************************************************)
(* Properties of the auth gate.                                            *)
(***************************************************************************)
\* The header presents a Bearer key whose SHA-256 hash is the keyHash of an
\* active key of a verified domain.
PresentsValidKey(h) ==
    /\ h # None
    /\ h.prefix = "Bearer "
    /\ \E k \in Keys :
           /\ KeyHash[k] = hashApiKey(PresentedKey(h))
           /\ isActive[k]
           /\ txtVerified[KeyDomain[k]]

\* What the handler of request r has written.
Effects(r) ==
    \/ \E e \in emailEvent :
           e.id \in {<<"ev", r, n>> : n \in 1..MaxRcpt} \cup {<<"evt_api", r>>}
    \/ \E x \in emailTrackingOpen : x.messageId[2] = r
    \/ \E x \in emailTrackingLink : x.messageId[2] = r
    \/ \E j \in jobs : j.jobId = r
    \/ \E x \in emailSuppression : x.id = SuppressionId(r)
    \/ Charged(r)

\* C6: a request gets past the gate exactly when it presents a Bearer key
\* whose hash is the keyHash of an active key of a verified domain (and the
\* lookup itself succeeds); a request that does not get past it leaves no
\* event row, tracking row, job or suppression row and no quota change.
C6_GateIff ==
    /\ \A r \in 1..Len(reqs) :
           /\ reqs[r].gate # "pending"
                  => (reqs[r].gate = "passed"
                         <=> reqs[r].dbOk /\ PresentsValidKey(reqs[r].header))
           /\ reqs[r].gate # "passed" => ~Effects(r)
    /\ emailUsed["b1"] = NetUsed(Len(reqs))

C6_Witness ==
    \E r \in 1..Len(reqs) :
        /\ reqs[r].gate = "passed"
        /\ reqs[r].header.pad
        /\ reqs[r].status = 200
        /\ Effects(r)

(***************************************************************************)
(* Properties of the suppression engine.                                   *)
(***************************************************************************)
\* The addresses of `emails` for which a blocking row in scope exists.
BlockingRowFor(u, e, d) ==
    \E x \in emailSuppression :
        /\ x.userId = u
        /\ x.email = ToLowerCase(e)
        /\ x.reason \in {"hard_bounce", "complaint", "unsubscribe", "manual"}
        /\ (x.domainId = "" \/ (d # "" /\ x.domainId = d))

\* C7: checkSuppression(u, emails, d) returns an address exactly when a row
\* of tenant u holds the lower-cased address with a blocking reason and a
\* domainId that is NULL or d (NULL only, when no d is passed).
C7_CheckExact ==
    lastCheck.result =
        {ToLowerCase(lastCheck.emails[i]) :
            i \in {n \in 1..Len(lastCheck.emails) :
                      BlockingRowFor(lastCheck.userId, lastCheck.emails[n],
                                     lastCheck.domainId)}}

C7_Witness ==
    /\ lastCheck.emails = <<Email("b"), Upper("a")>>
    /\ lastCheck.domainId = "d1"
    /\ lastCheck.result = {Email("a")}
    /\ \E x \in emailSuppression :
           x.userId # lastCheck.userId /\ x.reason = "manual"
    /\ \E x \in emailSuppression :
           x.userId = lastCheck.userId /\ x.domainId = "d1"

\* The soft bounces processed so far.
Bounces ==
    Cardinality({r \in 1..Len(reqs) :
                    reqs[r].pc = "done" /\ reqs[r].status = 201})

SameAddress(x, y) ==
    x.userId = y.userId /\ Normalize(x.email) = Normalize(y.email)

C9_Unique ==
    /\ \A x \in emailSuppression : \A y \in emailSuppression :
           SameAddress(x, y) => x = y
    /\ \A r \in 1..Len(reqs) :
           (reqs[r].existing # None /\ reqs[r].call.fn # "handleSoftBounce")
               => ~\E x \in emailSuppression : x.id = SuppressionId(r)

\* A step of an add that finds a row for its (userId, email).
C9_AddExisting(r) ==
    (/\ r <= Len(reqs)
     /\ reqs[r].pc = "find"
     /\ reqs[r].call.fn # "handleSoftBounce"
     /\ FindSuppression(reqs[r].call.userId, reqs[r].call.email) # {}
     /\ reqs'[r] # reqs[r])
        => /\ emailSuppression' = emailSuppression
           /\ reqs'[r].pc = "done"
           /\ \E x \in emailSuppression :
                  /\ x.userId = reqs[r].call.userId
                  /\ x.email = reqs[r].call.email
                  /\ reqs'[r].resp.suppression = SuppressionResult(x)

C9_Promotion ==
    \A x \in emailSuppression : \A y \in emailSuppression' :
        (SameAddress(x, y) /\ x.reason = "soft_bounce"
             /\ y.reason = "hard_bounce") => x.id = y.id

\* C9: under every interleaving of POST /events and POST /suppressions (and
\* so of addToSuppression, addToSuppressionInternal and handleSoftBounce)
\* there is at most one row per (userId, lower-cased trimmed email); an add
\* that finds a row inserts nothing, leaves the table unchanged and returns
\* that row; a promotion to hard_bounce keeps the id of the row.
C9_OneRowPerAddress ==
    /\ []C9_Unique
    /\ [][(\A r \in 1..MaxReq : C9_AddExisting(r)) /\ C9_Promotion]_vars

C9_Witness ==
    \E r1 \in 1..Len(reqs) : \E r2 \in 1..Len(reqs) :
        /\ reqs[r1].status = 500
        /\ reqs[r1].call # None
        /\ reqs[r2].status = 201
        /\ reqs[r2].call # None
        /\ reqs[r2].call.email = reqs[r1].call.email
        /\ \E x \in emailSuppression : x.id = SuppressionId(r2)

(***************************************************************************)
(* Properties of the tracking ingress.                                     *)
(***************************************************************************)
\* C11: under sequential tracking requests at most one opened event row and
\* at most one clicked event row exists per (messageId, recipient).
C11_OncePerRecipient ==
    \A e1 \in emailEvent : \A e2 \in emailEvent :
        (/\ e1.eventType \in {"opened", "clicked"}
         /\ e1.eventType = e2.eventType
         /\ e1.messageId = e2.messageId
         /\ e1.recipientEmail = e2.recipientEmail) => e1 = e2

\* C12: GET /t/o/:id answers with the transparent GIF and Content-Type
\* image/gif for a known id, for an unknown id and when a database
\* operation of the handler throws.
C12_AlwaysGif ==
    lastGet.kind = "open"
        => lastGet.body = TRANSPARENT_GIF /\ lastGet.contentType = "image/gif"

C12_Witness ==
    /\ lastGet.kind = "open"
    /\ lastGet.found
    /\ lastGet.fail = "insert"
    /\ \E x \in emailTrackingOpen :
           /\ x.id = lastGet.id
           /\ x.openCount = 1
           /\ ~\E e \in emailEvent :
                  e.eventType = "opened" /\ e.messageId = x.messageId

\* A step that serves GET /t/c/:id.
ClickStep == gets' = gets + 1 /\ lastGet'.kind = "click"

\* C16: when no database operation throws, GET /t/c/:id for an id without
\* an emailTrackingLink row answers 404, changes no row and inserts no
\* event; for an id with a row it answers 302 with Location = originalUrl.
C16_ClickOutcome ==
    [][ClickStep =>
          LET rows == {x \in emailTrackingLink : x.id = lastGet'.id}
          IN  /\ (rows = {} /\ lastGet'.fail # "find")
                     => /\ lastGet'.status = 404
                        /\ UNCHANGED <<emailTrackingLink, emailTrackingOpen,
                                       emailEvent>>
              /\ (rows # {} /\ lastGet'.fail = "none")
                     => /\ lastGet'.status = 302
                        /\ \A x \in rows :
                               lastGet'.location = [url |-> x.originalUrl]]_vars

C16_Witness ==
    /\ lastGet.kind = "click"
    /\ lastGet.status = 404
    /\ lastGet.id = UnknownId
    /\ \E x \in emailTrackingLink : x.clickCount = 1 /\ x.originalUrl = UrlB

\* C17: when the emailTrackingLink row was found and the update or the
\* event insert throws, GET /t/c/:id still answers 302.
C17_RedirectDespiteError ==
    (/\ lastGet.kind = "click"
     /\ lastGet.found
     /\ lastGet.fail \in {"update", "insert"}) => lastGet.status = 302

(***************************************************************************)
(* Properties of the synchronous checks of POST /send.                     *)
(***************************************************************************)
\* The requests whose `from` parsed, with the domain of the key presented.
PastParse(r) ==
    /\ reqs[r].route = "send"
    /\ reqs[r].gate = "passed"
    /\ reqs[r].pc # "gate"
    /\ reqs[r].body.from.wellFormed

KeyDomainName(r) == DomainName[KeyDomain[GateKey(reqs[r].header)]]

AtQuota(r) ==
    /\ PastParse(r)
    /\ reqs[r].auth # None
    /\ extractDomain(reqs[r].body.from).host
           = HostLower(DomainName[reqs[r].auth.domain])

OverQuota(r) ==
    /\ reqs[r].auth.billing # None
    /\ reqs[r].auth.billing.emailUsed + Len(Recipients(reqs[r].body.to))
           > reqs[r].auth.billing.emailLimit

EventRequest(r) == reqs[r].route = "events" /\ reqs[r].gate = "passed"

\* The suppression call the event of request r has to drive, by reason.
DrivesAdd(r, reason) ==
    /\ reqs[r].call # None
    /\ reqs[r].call.fn = "addToSuppressionInternal"
    /\ reqs[r].call.reason = reason

DrivesSoftBounce(r) ==
    reqs[r].call # None /\ reqs[r].call.fn = "handleSoftBounce"

EventRowOf(r) ==
    {e \in emailEvent :
        e.id = <<"evt_api", r>> /\ e.eventType = reqs[r].body.eventType}

C15_Driven ==
    \A r \in 1..Len(reqs) :
        LET t == reqs[r].body.eventType
            bt == reqs[r].body.bounceType
        IN  EventRequest(r) =>
              IF t \notin EVENT_TYPES
              THEN /\ reqs[r].status = 400
                   /\ reqs[r].call = None
                   /\ ~Effects(r)
              ELSE IF reqs[r].pc = "event"
              THEN reqs[r].call = None /\ ~Effects(r)
              ELSE /\ EventRowOf(r) # {}
                   /\ t = "complained" => DrivesAdd(r, "complaint")
                   /\ t = "unsubscribed" => DrivesAdd(r, "unsubscribe")
                   /\ (t = "bounced" /\ bt = "soft_bounce")
                          => DrivesSoftBounce(r)
                   /\ (t = "bounced" /\ bt # "soft_bounce")
                          => DrivesAdd(r, "hard_bounce")
                   /\ t \notin {"complained", "unsubscribed", "bounced"}
                          => /\ reqs[r].call = None
                             /\ reqs[r].status = 201

\* A step of a request whose event type is none of complained,
\* unsubscribed, bounced.
QuietEventStep(r) ==
    /\ r \in 1..Len(reqs)
    /\ reqs[r].route = "events"
    /\ reqs[r].body.eventType \notin {"complained", "unsubscribed", "bounced"}
    /\ reqs'[r] # reqs[r]

\* C15: POST /events with a valid eventType inserts the event row and then
\* calls: complained -> add complaint; unsubscribed -> add unsubscribe;
\* bounced with bounceType soft_bounce -> handleSoftBounce; bounced with
\* another or no bounceType -> add hard_bounce; every other type leaves
\* emailSuppression unchanged; an invalid eventType answers 400 and
\* inserts no row.
C15_EventDrivesSuppression ==
    /\ []C15_Driven
    /\ [][\A r \in 1..MaxReq :
              QuietEventStep(r) => UNCHANGED emailSuppression]_vars

C15_Witness ==
    \E r \in 1..Len(reqs) :
        /\ EventRequest(r)
        /\ reqs[r].body.eventType = "bounced"
        /\ reqs[r].body.bounceType = "transient"
        /\ reqs[r].status = 201
        /\ EventRowOf(r) # {}
        /\ \E x \in emailSuppression :
               /\ x.id = SuppressionId(r)
               /\ x.reason = "hard_bounce"
               /\ x.email = Email("a")

(***************************************************************************)
(* Properties of the auth gate.                                            *)
(***************************************************************************)
KeyRows(h) == {k \in Keys : KeyHash[k] = hashApiKey(h.tok)}

\* The handler of request r was not run.
NotHandled(r) ==
    /\ reqs[r].pc = "done"
    /\ reqs[r].gate = "rejected"
    /\ reqs[r].n = 0
    /\ ~Effects(r)

\* C18: the gate answers with the first failing check in the order: no
\* Authorization header 401; no literal prefix 'Bearer ' 401; key empty
\* after trimming 401; error raised by the lookup 500, handler not run; no
\* domainApiKey row for the hash 401; row not active 401; domain not
\* txtVerified 403.  An inactive key of an unverified domain gets 401.
C18_GateOrder ==
    \A r \in 1..Len(reqs) :
        LET h == reqs[r].header
            st == reqs[r].status
        IN  reqs[r].gate # "pending" =>
              IF h = None THEN st = 401 /\ NotHandled(r)
              ELSE IF h.prefix # "Bearer " THEN st = 401 /\ NotHandled(r)
              ELSE IF h.tok = "" THEN st = 401 /\ NotHandled(r)
              ELSE IF ~reqs[r].dbOk THEN st = 500 /\ NotHandled(r)
              ELSE IF KeyRows(h) = {} THEN st = 401 /\ NotHandled(r)
              ELSE IF \E k \in KeyRows(h) : ~isActive[k]
                   THEN st = 401 /\ NotHandled(r)
              ELSE IF \E k \in KeyRows(h) : ~txtVerified[KeyDomain[k]]
                   THEN st = 403 /\ NotHandled(r)
              ELSE reqs[r].gate = "passed"

C18_Witness ==
    \E r \in 1..Len(reqs) :
        /\ reqs[r].header = BearerHeader("tok2", FALSE)
        /\ ~isActive["k2"]
        /\ ~txtVerified["d2"]
        /\ reqs[r].dbOk
        /\ reqs[r].status = 401
        /\ NotHandled(r)

\* The gate step of a request whose lastUsedAt update failed.
FailedUpdateGate(r) ==
    /\ r \in 1..Len(reqs)
    /\ reqs[r].pc = "gate"
    /\ reqs'[r].touch = "failed"

\* The request r as it would stand had the update succeeded.
AsIfUpdated(r) ==
    [HandlerStart(r, [reqs[r] EXCEPT !.gate = "passed"])
         EXCEPT !.touch = "failed"]

C19_Outcome ==
    \A r \in 1..Len(reqs) :
        reqs[r].touch = "failed" =>
            /\ reqs[r].gate = "passed"
            /\ reqs[r].status # 500
            /\ (reqs[r].pc = "done" /\ SendValidate(reqs[r].auth, reqs[r].body) = 0)
                   => reqs[r].status = 200 /\ Effects(r)

\* C19: a failure of the update of domainApiKey.lastUsedAt does not change
\* the outcome of the request: with a valid key the request passes the gate
\* and is handled as it is when the update succeeds.
C19_UpdateFailureIgnored ==
    /\ []C19_Outcome
    /\ [][\A r \in 1..MaxAuthReq :
              FailedUpdateGate(r) =>
                  /\ reqs'[r] = AsIfUpdated(r)
                  /\ storeAuth' = AuthContextOf(GateKey(reqs[r].header))
                  /\ UNCHANGED <<isActive, txtVerified, lastUsedAt>>]_vars

C19_Witness ==
    \E r \in 1..Len(reqs) :
        /\ reqs[r].touch = "failed"
        /\ ~lastUsedAt[GateKey(reqs[r].header)]
        /\ reqs[r].header.pad
        /\ reqs[r].status = 200
        /\ Effects(r)

(***************************************************************************)
(* Properties of the tracking rewriter.                                    *)
(***************************************************************************)
\* The URL contains unsubscribe, optout, mailto:, tel: or #, in any case.
ContainsExclusion(u) ==
    u[3] \in {"unsubscribe", "Unsubscribe", "optout", "OptOut", "mailto:",
              "tel:", "#"}

Rewritten(r) == reqs[r].route = "send" /\ reqs[r].track # None

EntityTails ==
    {<<"a", "m", "p", ";">>, <<"l", "t", ";">>, <<"g", "t", ";">>,
     <<"q", "u", "o", "t", ";">>, <<"#", "0", "3", "9", ";">>}

\* The '&' at position i of str begins an entity.
EntityAt(str, i) ==
    \E tail \in EntityTails :
        /\ i + Len(tail) <= Len(str)
        /\ \A k \in 1..Len(tail) : str[i + k][1] = tail[k]

\* No character that came from a value or a default stands in str as a
\* literal < > " ' or as an & that begins no entity.
OnlyEntities(str) ==
    \A i \in 1..Len(str) :
        str[i][2] \in {"val", "def"} =>
            /\ str[i][1] \notin {"<", ">", "dq", "sq"}
            /\ str[i][1] = "&" => EntityAt(str, i)

\* C21: rendering a template never brings a literal < > " ' or an
\* unescaped & of a caller-supplied value or of a declared default into
\* the subject or the html: each such character appears only as its entity.
C21_ValuesEscaped ==
    lastRender.result # None =>
        /\ OnlyEntities(lastRender.result.subject)
        /\ OnlyEntities(lastRender.result.html)

(***************************************************************************)
(* Properties of the event rows under the worker's updates.                *)
(***************************************************************************)
DownstreamTypes ==
    {"opened", "clicked", "delivered", "bounced", "complained", "unsubscribed"}

\* C22: an emailEvent row inserted with a downstream type keeps its
\* eventType and metadata in every later state; the worker's transition to
\* sent or failed changes only the rows inserted as queued.
C22_DownstreamRowsKept ==
    [][\A e \in emailEvent :
           e.eventType \in DownstreamTypes => e \in emailEvent']_vars

(***************************************************************************)
(* C23: the outcome of one worker attempt.                                 *)
(***************************************************************************)
\* Every emailEvent row of the message has this type in the next state.
RowsBecome(messageId, eventType) ==
    \A e \in emailEvent' :
        e.messageId = messageId => e.eventType = eventType

\* The attempt of the active job `job` ends in this step.
AttemptEnds(job) == job.state = "active" /\ job \notin jobs'

JobAfter(job) == CHOOSE j \in jobs' : j.jobId = job.jobId

\* C23: an attempt the relay accepted (in full or in part) leaves the rows
\* of the message sent and the job completed; an attempt the relay answered
\* with an error leaves them failed with the attempt number in metadata and
\* hands the error to the queue, which puts the job back to waiting while
\* attempts remain and fails it otherwise.
C23_AttemptOutcome ==
    [][\A job \in jobs :
          AttemptEnds(job) =>
             IF job.result = "error"
             THEN /\ RowsBecome(job.data.messageId, "failed")
                  /\ \A e \in emailEvent' :
                         e.messageId = job.data.messageId =>
                            e.metadata = <<"attempt", job.attemptsMade + 1>>
                  /\ JobAfter(job).attemptsMade = job.attemptsMade + 1
                  /\ JobAfter(job).state =
                        (IF job.attemptsMade + 1 < DefaultAttempts
                         THEN "waiting" ELSE "failed")
             ELSE /\ RowsBecome(job.data.messageId, "sent")
                  /\ JobAfter(job).state = "completed"]_vars

\* A job completed on a retry after a partial rejection: its rows went from
\* queued to failed and from failed to sent.
C23_Witness ==
    \E job \in jobs :
        /\ job.state = "completed"
        /\ job.result = "partial"
        /\ job.attemptsMade = 2
        /\ \E e \in emailEvent :
               e.messageId = job.data.messageId /\ e.eventType = "sent"

(***************************************************************************)
(* C24: the worker's quota rollback.                                       *)
(***************************************************************************)
\* The attempt ending in this step is a failing one and the job's last.
TerminalFailure(job) ==
    /\ AttemptEnds(job)
    /\ job.result = "error"
    /\ job.attemptsMade + 1 >= DefaultAttempts

\* C24: emailUsed goes down only in the step that ends the failing last
\* attempt (attemptsMade + 1 >= 3) of a job, and then to
\* GREATEST(0, emailUsed - len(to)); the end of every other attempt, failing
\* or succeeding, leaves emailUsed as it was; a job that has failed or
\* completed is never run again, so each job decrements at most once.
C24_RollbackOnce ==
    [][/\ \A b \in Billings :
             emailUsed'[b] < emailUsed[b] =>
                \E job \in jobs :
                    /\ TerminalFailure(job)
                    /\ emailUsed'[b] =
                           Greatest0(emailUsed[b] - Len(job.data.to))
       /\ \A job \in jobs :
             /\ AttemptEnds(job) /\ ~TerminalFailure(job)
                   => emailUsed' = emailUsed
             /\ TerminalFailure(job)
                   => emailUsed'["b1"] =
                         Greatest0(emailUsed["b1"] - Len(job.data.to))
             /\ job.state \in {"failed", "completed"} => job \in jobs']_vars

\* A job of two recipients has failed on its third attempt and the two
\* emails it was charged are given back.
C24_Witness ==
    \E job \in jobs :
        /\ job.state = "failed"
        /\ job.attemptsMade = DefaultAttempts
        /\ Len(job.data.to) = 2
        /\ Charged(job.jobId)
        /\ emailUsed["b1"] = 0

(***************************************************************************)
(* C25, C26: tracking GETs and sends in flight together.                   *)
(***************************************************************************)
\* The GETs of this kind on this id whose update has completed.
UpdatesOf(kind, id) ==
    {g \in Updated : trk[g].kind = kind /\ trk[g].id = id}

\* C25: whatever the interleaving, openCount and clickCount of a row equal
\* the number of GETs on it whose update has completed, and emailUsed equals
\* the sum of the recipient counts of the sends that have incremented it.
C25_NoLostUpdates ==
    /\ \A row \in emailTrackingOpen :
           row.openCount = Cardinality(UpdatesOf("open", row.id))
    /\ \A row \in emailTrackingLink :
           row.clickCount = Cardinality(UpdatesOf("click", row.id))
    /\ emailUsed["b1"] = NetUsed(Len(reqs))

\* Two GETs on one pixel that both read the row before either updated it
\* have both updated it, and two sends have incremented emailUsed.
C25_Witness ==
    /\ \E g1 \in Updated : \E g2 \in Updated :
           /\ g1 # g2
           /\ trk[g1].kind = "open" /\ trk[g2].kind = "open"
           /\ trk[g1].id = trk[g2].id
           /\ trk[g1].rec.openCount = 0 /\ trk[g2].rec.openCount = 0
    /\ Len(reqs) = 2
    /\ Charged(1) /\ Charged(2)

\* C26: once openedAt (clickedAt) of a row is set, no step changes it.
C26_FirstTouchKept ==
    [][/\ \A row \in emailTrackingOpen :
             row.openedAt # 0 =>
                \E after \in emailTrackingOpen' :
                    after.id = row.id /\ after.openedAt = row.openedAt
       /\ \A row \in emailTrackingLink :
             row.clickedAt # 0 =>
                \E after \in emailTrackingLink' :
                    after.id = row.id /\ after.clickedAt = row.clickedAt]_vars

(***************************************************************************)
(* C27: the rows of a message are there before its job is.                 *)
(***************************************************************************)
\* Every row POST /send inserts for the message of this job is in its table.
RowsInserted(job) ==
    LET r == job.jobId
        req == reqs[r]
    IN  /\ \A n \in 1..Len(job.data.to) :
               /\ \E e \in emailEvent :
                      /\ e.id = QueuedEvent(r, n, req.auth, job.data.to[n]).id
                      /\ e.messageId = job.data.messageId
                      /\ e.recipientEmail = job.data.to[n]
               /\ req.track # None =>
                      \E x \in emailTrackingOpen :
                          /\ x.id = OpenRow(r, n, req.auth, job.data.to[n],
                                            req.track).id
                          /\ x.messageId = job.data.messageId
        /\ req.track # None =>
               \A l \in LinkRows(r, req.auth, job.data.to[1], req.track) :
                   \E x \in emailTrackingLink :
                       x.id = l.id /\ x.messageId = job.data.messageId

\* C27: from the moment a job is in the queue, and so during every worker
\* attempt and every sent/failed update, the event row of each recipient and
\* the tracking rows of the message are in their tables.
C27_RowsBeforeJob == \A job \in jobs : RowsInserted(job)

\* A worker attempt in progress for a message to two recipients, the relay
\* having answered, with all rows of the message in place.
C27_Witness ==
    \E job \in jobs :
        /\ job.state = "active"
        /\ Len(job.data.to) = 2
        /\ reqs[job.jobId].track # None
        /\ RowsInserted(job)

(***************************************************************************)
(* C28: handleSoftBounce on a row that is not a soft-bounce row.           *)
(***************************************************************************)
\* The findFirst of a handleSoftBounce call of request r returns a row whose
\* reason is not soft_bounce, in this step.
SoftBounceOnBlocking(r) ==
    /\ r <= Len(reqs)
    /\ reqs[r].pc = "find"
    /\ reqs[r].call.fn = "handleSoftBounce"
    /\ \E x \in FindSuppression(reqs[r].call.userId, reqs[r].call.email) :
           x.reason # "soft_bounce"
    /\ reqs'[r] # reqs[r]

\* C28: handleSoftBounce that finds a row with a reason other than
\* soft_bounce changes no suppression row and returns the row's id, email
\* and reason with upgraded = FALSE; so a soft bounce after the promotion
\* returns hard_bounce and leaves softBounceCount and upgradedAt alone.
C28_NoDowngrade ==
    [][\A r \in 1..MaxReq :
          SoftBounceOnBlocking(r) =>
             /\ emailSuppression' = emailSuppression
             /\ reqs'[r].pc = "done"
             /\ \E x \in FindSuppression(reqs[r].call.userId,
                                         reqs[r].call.email) :
                    reqs'[r].resp.suppression =
                        [id |-> x.id, email |-> x.email, reason |-> x.reason,
                         upgraded |-> FALSE]]_vars

\* A soft bounce promoted the row (count 3) and the next soft bounce
\* returned hard_bounce, the row still at count 3.
C28_Witness ==
    /\ Len(reqs) = 2
    /\ reqs[1].resp # None /\ reqs[2].resp # None
    /\ reqs[1].call # None /\ reqs[2].call # None
    /\ reqs[1].call.fn = "handleSoftBounce"
    /\ reqs[2].call.fn = "handleSoftBounce"
    /\ reqs[1].pc = "done" /\ reqs[2].pc = "done"
    /\ reqs[1].resp.suppression.upgraded
    /\ reqs[2].resp.suppression.reason = "hard_bounce"
    /\ ~reqs[2].resp.suppression.upgraded
    /\ \E x \in emailSuppression :
           /\ x.reason = "hard_bounce"
           /\ x.metadata.softBounceCount = SOFT_BOUNCE_THRESHOLD
           /\ x.metadata.upgradedAt = 1

(***************************************************************************)
(* C29: DELETE /suppressions/:id.                                          *)
(***************************************************************************)
\* The rows with the id of request r that belong to the tenant it acts for.
OwnedBy(r) ==
    {x \in emailSuppression :
        x.id = reqs[r].body.id /\ x.userId = reqs[r].auth.user}

\* The handler of DELETE request r takes a step.
DeleteStep(r) ==
    /\ r <= Len(reqs)
    /\ reqs[r].route = "delete"
    /\ reqs[r].pc \in {"lookup", "remove"}
    /\ reqs'[r] # reqs[r]

SendHandled(r) ==
    /\ reqs[r].route = "send"
    /\ reqs[r].pc = "done"
    /\ reqs[r].gate = "passed"
    /\ SendValidate(reqs[r].auth, reqs[r].body) = 0

\* C30: a send that passes the preflight is accepted whatever addresses its
\* list repeats; every list entry has its own queued row, and the link rows
\* of the message are in the table, inserted once.
C30_RepeatsAccepted ==
    \A r \in 1..Len(reqs) :
        SendHandled(r) =>
            LET to == Recipients(reqs[r].body.to)
            IN  /\ reqs[r].status = 200
                /\ \A n \in 1..Len(to) :
                       \E e \in emailEvent :
                           /\ e.id = QueuedEvent(r, n, reqs[r].auth, to[n]).id
                           /\ e.recipientEmail = to[n]
                /\ reqs[r].track # None =>
                       \A l \in LinkRows(r, reqs[r].auth, to[1],
                                         reqs[r].track) :
                           \E x \in emailTrackingLink : x.id = l.id

(***************************************************************************)
(* C31: the context a handler acts on.                                     *)
(***************************************************************************)
\* C31: a request that has passed the gate is handled with the context of
\* the key in its own Authorization header: the key, its domain, its user
\* and the user's billing row, and never with no context.
C31_OwnContext ==
    \A r \in 1..Len(reqs) :
        reqs[r].gate = "passed" =>
            LET k == GateKey(reqs[r].header)
            IN  /\ reqs[r].auth # None
                /\ reqs[r].auth.apiKey = k
                /\ reqs[r].auth.domain = KeyDomain[k]
                /\ reqs[r].auth.user = KeyUser[k]

(***************************************************************************)
(* C32: the quota under sends in flight together.                          *)
(***************************************************************************)
\* C32: emailUsed never exceeds emailLimit, also with several sends of one
\* tenant in flight.
C32_WithinLimit == \A b \in Billings : emailUsed[b] <= EmailLimit[b]

(***************************************************************************)
(* C33: one acceptance per message.                                        *)
(***************************************************************************)
\* C33: the relay accepts a message at most once, also when the update of
\* the events after the successful send fails.
C33_RelayedOnce ==
    \A x \in relayed : \A y \in relayed :
        x.messageId = y.messageId => x.attempt = y.attempt

(***************************************************************************)
(* C34: a processed blocking event blocks.                                 *)
(***************************************************************************)
\* Request r asked for a suppression with a blocking reason and was
\* answered 201.
BlockingProcessed(r) ==
    /\ reqs[r].pc = "done"
    /\ reqs[r].status = 201
    /\ reqs[r].call # None
    /\ reqs[r].call.fn # "handleSoftBounce"
    /\ reqs[r].call.reason \in BLOCKING_REASONS

\* C34: once a complained, unsubscribed or hard-bounce event, or a POST
\* /suppressions with a blocking reason, has been answered 201 for (u, e),
\* checkSuppression with the domain scope of the call returns e, whatever
\* row there was for (u, e) before.
C34_BlockedAfterEvent ==
    \A r \in 1..Len(reqs) :
        BlockingProcessed(r) =>
            Blocked(reqs[r].call.userId, reqs[r].call.email,
                    reqs[r].call.domainId)

(***************************************************************************)
(* C35: the rewritten links resolve.                                       *)
(***************************************************************************)
\* C35: every /t/c/{id} href in the html of an enqueued job is the id of an
\* emailTrackingLink row of the job's message that holds the URL the anchor
\* had in the request, whatever the two tracking switches are.
C35_LinksResolve ==
    \A job \in jobs :
        job.data.html # None =>
            \A i \in 1..Len(job.data.html.anchors) :
                job.data.html.anchors[i][1] = "t/c" =>
                    \E x \in emailTrackingLink :
                        /\ x.id = job.data.html.anchors[i][2]
                        /\ x.messageId = job.data.messageId
                        /\ x.originalUrl =
                               reqs[job.jobId].body.html.anchors[i]

(***************************************************************************)
(* C36: a send that fails midway.                                          *)
(***************************************************************************)
\* Send request r ended in an error after it had passed the preflight.
SendFailed(r) ==
    /\ reqs[r].route = "send"
    /\ reqs[r].pc = "done"
    /\ reqs[r].status = 500

\* C36: a send that failed leaves no queued row of its message, and
\* emailUsed counts only the recipients of sends that are still being
\* handled or have a job.
C36_NoPartialIntent ==
    /\ \A r \in 1..Len(reqs) :
           SendFailed(r) =>
               ~\E e \in emailEvent :
                    /\ e.messageId = MessageId(r, reqs[r].auth.domain)
                    /\ e.eventType = "queued"
    /\ emailUsed["b1"] = NetUsed(Len(reqs))

(***************************************************************************)
(* C37: GET /suppressions/check.                                           *)
(***************************************************************************)
\* C37: GET /suppressions/check?email=e with a key of tenant u and domain d
\* answers suppressed = TRUE whenever checkSuppression(u, [e], d) returns
\* e, that is whenever e is blocked for that key.
C37_CheckReportsBlocked ==
    [][\A r \in 1..MaxReq :
          (/\ r <= Len(reqs)
           /\ reqs[r].pc = "check"
           /\ reqs'[r].pc = "done"
           /\ Blocked(reqs[r].auth.user, ToLowerCase(reqs[r].body.email),
                      reqs[r].auth.domain))
              => reqs'[r].resp.suppressed]_vars

(***************************************************************************)
(* C38: concurrent soft bounces.                                           *)
(***************************************************************************)
\* The soft-bounce events answered 201.
Processed == {r \in 1..Len(reqs) : reqs[r].pc = "done" /\ reqs[r].status = 201}

\* C38: when soft-bounce events for the same tenant and address overlap, no
\* count is lost: once all are answered, softBounceCount equals the number
\* of events processed, and the row is hard_bounce once three were.
C38_NoLostCount ==
    (AllDone /\ Processed # {}) =>
        \A x \in FindSuppression("u1", Email("a")) :
            IF Cardinality(Processed) >= SOFT_BOUNCE_THRESHOLD
            THEN x.reason = "hard_bounce"
            ELSE /\ x.reason = "soft_bounce"
                 /\ x.metadata.softBounceCount = Cardinality(Processed)

(***************************************************************************)
(* C39: tracking rows and the event stream.                                *)
(***************************************************************************)
\* An event of the given type exists for the tracking row's message and
\* recipient.
HasEvent(x, type) ==
    \E e \in emailEvent :
        /\ e.eventType = type
        /\ e.messageId = x.messageId
        /\ e.recipientEmail = x.recipientEmail

\* C39: once a tracking GET has finished, a tracking row with openedAt
\* (clickedAt) set has an opened (clicked) event for its message and
\* recipient.
C39_TouchHasEvent ==
    gets > 0 =>
        /\ \A x \in emailTrackingOpen : x.openedAt # 0 => HasEvent(x, "opened")
        /\ \A x \in emailTrackingLink :
               x.clickedAt # 0 => HasEvent(x, "clicked")

(***************************************************************************)
(* C40: the envelope's X- headers.                                         *)
(***************************************************************************)
ReservedHeaders == {"X-Message-Id", "X-User-Id", "X-Domain-Id", "X-API-Key-Id"}

\* C40: in the envelope handed to the relay, X-Message-Id, X-User-Id,
\* X-Domain-Id and X-API-Key-Id equal the job's messageId, userId, domainId
\* and apiKeyId also when the caller's headers carry those names, and every
\* other caller header is passed through unchanged.
C40_EnvelopeHeaders ==
    lastMail # NoMail =>
        LET data == lastMail.data
            caller == IF data.headers = None THEN NoHeaders ELSE data.headers
        IN  /\ lastMail.headers["X-Message-Id"] = data.messageId
            /\ lastMail.headers["X-User-Id"] = data.userId
            /\ lastMail.headers["X-Domain-Id"] = data.domainId
            /\ lastMail.headers["X-API-Key-Id"] = data.apiKeyId
            /\ \A k \in DOMAIN caller \ ReservedHeaders :
                   lastMail.headers[k] = caller[k]

=============================================================================
